---- MODULE Spec2Model ----
(***************************************************************************)
(* k8s-log-etl: the streaming pipeline core of cmd/etl (runPipeline, its   *)
(* worker pool, writeWithRetry, lockedWriter) together with the sinks it   *)
(* drives (internal/sink), the report accumulator (internal/report), the   *)
(* normalizer (internal/stages) and the filter_redact transform            *)
(* (internal/stages, internal/plugins).                                    *)
(***************************************************************************)
EXTENDS Integers, Sequences, FiniteSets, TLC

(***************************************************************************)
(* Bounds of the model.                                                    *)
(***************************************************************************)
MaxLines == 3
MaxWorkerCfg == 2
MaxQueueCfg == 1
MaxBatchCfg == 2
MaxRetryCfg == 1
MaxTransforms == 2
MaxLoad == 4
\* Smallest sink_max_retries explored; negative values are clamped or not by
\* the code that reads them.
MinRetryCfg == 0 - 1
\* The rotating sinks explored: max_bytes, max_files, the size of a record
\* (in the same unit as max_bytes) and the rotations followed.
MaxBytesCfg == 3
MaxFilesCfg == 2
MaxRecordSize == 2
MaxIndex == 4
\* The decoded lines explored: the length of a string value and the number of
\* keys in which a line differs from a well-formed one.
MaxStr == 2
MaxEdits == 2

\* writeWithRetry's waits: the highest retry index followed, and the number of
\* values rand.Float64() is drawn from (k / RandSteps, 0 <= k < RandSteps).
MaxAttempt == 66
RandSteps == 4

\* Bits of a time.Duration (int64).
DurationBits == 64

(***************************************************************************)
(* Program constants.                                                      *)
(***************************************************************************)
DefaultQueueSize == 128

VARIABLES
    cfg,                \* config.Config as seen by runPipeline
    input,              \* the input: its number of lines and the lines it may hold
    cancelled,          \* ctx.Done() is closed
    mpc,                \* position of runPipeline's own goroutine
    pos,                \* lines handed out by scanner.Scan()
    line,               \* the line the loop body last worked on
    pending,            \* record the producer is about to send (0: none)
    shutdownRequested,  \* local flag of the producer loop
    result,             \* value runPipeline returns
    queue,              \* chan workItem: buffered items
    qclosed,            \* close(queue) done
    wpc,                \* position of each worker goroutine
    item,               \* record a worker is writing (0: none)
    attempt,            \* writeWithRetry: loop variable
    retries,            \* writeWithRetry: retries
    werr,               \* error text a worker's write ended with
    tries,              \* per worker: Write calls made and failed in its writeWithRetry call
    hattempt,           \* HTTPSink.Write: loop variable of the call a worker is in
    lock,               \* lockedSink.mu holder (NoThread: free)
    dlqLock,            \* dlqWriter.mu holder
    sinkBusy,           \* threads inside Write of the underlying main sink
    sinkClosing,        \* threads inside Close of the underlying main sink
    sinkCloses,         \* completed Close calls on the underlying main sink
    sinkLog,            \* per record: times the underlying main sink has written it
    postLog,            \* per record: POST requests the HTTP sink has sent for it
    postFail,           \* per record: POST requests for it that failed
    rot,                \* a RotatingJSONLSink and the files it left on disk
    stage,              \* a decoded line on its way through Normalize and filter_redact
    backoff,            \* the waits of one writeWithRetry call, retry after retry
    dlqBusy,            \* threads inside Write of the DLQ sink
    dlqClosing,         \* threads inside Close of the DLQ sink
    dlqCloses,          \* completed Close calls on the DLQ sink
    dlqLog,             \* per record: reasons of its envelopes in the DLQ sink
    buffer,             \* BatchedSink.buffer
    fbatch,             \* per thread: the rest of the batch its flush() copied
    fpc,                \* position of BatchedSink.flushLoop
    bctxDone,           \* BatchedSink.ctx cancelled
    tickerStopped,      \* BatchedSink.flushTicker stopped
    tick,               \* the stopped ticker left a tick in flushTicker.C
    rep,                \* report.Report counters
    enqueued,           \* records the producer has sent to the queue, in order
    applied,            \* transforms the loop body called for the line it last worked on
    unsynced,           \* report counters written without holding Report.mu
    counted             \* per record: times counted in written_ok or written_failed

mainVars == <<mpc, pos, line, pending, shutdownRequested, result>>
queueVars == <<queue, qclosed, enqueued>>
workerVars == <<wpc, item, attempt, retries, werr, tries, hattempt>>
httpVars == <<postLog, postFail>>
rotVars == <<rot>>
stageVars == <<stage>>
backoffVars == <<backoff>>
producerVars == <<applied, unsynced>>
sinkVars == <<sinkBusy, sinkClosing, sinkCloses, sinkLog>>
dlqVars == <<dlqLock, dlqBusy, dlqClosing, dlqCloses, dlqLog>>
batchVars == <<buffer, fbatch, fpc, bctxDone, tickerStopped, tick>>
vars == <<cfg, input, cancelled, mainVars, queueVars, workerVars, lock, sinkVars,
          dlqVars, batchVars, rep, counted, httpVars, rotVars, stageVars,
          backoffVars, producerVars>>

(***************************************************************************)
(* Threads.                                                                *)
(***************************************************************************)
NoThread == 0 - 2
FlusherT == 0 - 1
MainT == 0

\* main.go:286-289
workerCount == IF cfg.MaxWorkers <= 0 THEN 1 ELSE cfg.MaxWorkers

\* Variant of queueSize that never goes below the default.
queueSize_AtLeastDefault ==
    IF cfg.QueueSize < DefaultQueueSize THEN DefaultQueueSize ELSE cfg.QueueSize

\* main.go:290-293
queueSize == IF cfg.QueueSize <= 0 THEN DefaultQueueSize ELSE cfg.QueueSize

\* main.go:254
batching == cfg.BatchSize > 1

\* main.go:270
dlqConfigured == cfg.DLQ

\* builder.go:42-46: the main sink is the HTTP sink.
httpSink == cfg.Output = "http"

\* builder.go:46, batched.go:146: HTTPSink.maxRetries, taken as configured.
hsMaxRetries == cfg.SinkMaxRetries

\* Variant of maxRetries without the clamp of negative values.
maxRetries_Unclamped == cfg.SinkMaxRetries

\* main.go:481-484
maxRetries == IF cfg.SinkMaxRetries < 0 THEN 0 ELSE cfg.SinkMaxRetries

Workers == 1..workerCount
Threads == Workers \cup {MainT, FlusherT}

ErrWrite == "write sink"
ErrCanceled == "context canceled"
Reasons == {ErrWrite, ErrCanceled, "unknown"}

(***************************************************************************)
(* report.Report                                                           *)
(***************************************************************************)
NewReport ==
    [total_lines |-> 0, json_parsed |-> 0, json_failed |-> 0,
     normalized_ok |-> 0, normalized_failed |-> 0,
     filtered_level |-> 0, filtered_service |-> 0, filtered_other |-> 0,
     written_ok |-> 0, written_failed |-> 0,
     dlq_written |-> 0, dlq_reasons |-> [r \in Reasons |-> 0],
     total_retries |-> 0, writes_with_retries |-> 0, max_retries_per_write |-> 0]

AddFiltered(r, reason) ==
    CASE reason = "level" -> [r EXCEPT !.filtered_level = @ + 1]
      [] reason = "service" -> [r EXCEPT !.filtered_service = @ + 1]
      [] OTHER -> [r EXCEPT !.filtered_other = @ + 1]

AddWriteOK(r) == [r EXCEPT !.written_ok = @ + 1]

\* Variant of AddWriteFailed that drops the increment.
AddWriteFailed_Dropped(r) == r

AddWriteFailed(r) == [r EXCEPT !.written_failed = @ + 1]

\* Variant of AddDLQWithReason that counts the envelope but not its reason.
AddDLQWithReason_NoTally(r, reason) == [r EXCEPT !.dlq_written = @ + 1]

AddDLQWithReason(r, reason) ==
    LET rs == IF reason = "" THEN "unknown" ELSE reason
    IN [r EXCEPT !.dlq_written = @ + 1, !.dlq_reasons[rs] = @ + 1]

\* Variant of AddRetry that leaves writes_with_retries alone.
AddRetry_TotalOnly(r, n) == [r EXCEPT !.total_retries = @ + n]

AddRetry(r, n) ==
    LET r1 == [r EXCEPT !.total_retries = @ + n]
    IN IF n > 0
       THEN [r1 EXCEPT !.writes_with_retries = @ + 1,
                       !.max_retries_per_write = IF n > @ THEN n ELSE @]
       ELSE r1

(***************************************************************************)
(* The producer's stages for one line (main.go:353-411).                   *)
(***************************************************************************)
\* What one transform returns for a record: (dropped, reason, err).
TransformResults ==
    {[drop |-> FALSE, reason |-> "", err |-> FALSE],
     [drop |-> TRUE, reason |-> "level", err |-> FALSE],
     [drop |-> TRUE, reason |-> "service", err |-> FALSE],
     [drop |-> TRUE, reason |-> "", err |-> FALSE],
     [drop |-> FALSE, reason |-> "", err |-> TRUE]}

Pass == [drop |-> FALSE, reason |-> "", err |-> FALSE]
PassAll == [i \in 1..MaxTransforms |-> Pass]

\* A line of input: blank, or its JSON decodes or not, Normalize accepts it or
\* not, and what each configured transform returns for the record.
BlankLine == [blank |-> TRUE, json |-> FALSE, norm |-> FALSE, tf |-> PassAll]
BadJSONLine == [blank |-> FALSE, json |-> FALSE, norm |-> FALSE, tf |-> PassAll]
BadRecordLine == [blank |-> FALSE, json |-> TRUE, norm |-> FALSE, tf |-> PassAll]
RecordLine(t) == [blank |-> FALSE, json |-> TRUE, norm |-> TRUE, tf |-> t]

Lines ==
    {BlankLine, BadJSONLine, BadRecordLine}
        \cup {RecordLine(t) : t \in [1..MaxTransforms -> TransformResults]}

\* Blank lines and lines that end as surviving records.
PlainLines == {BlankLine, RecordLine(PassAll)}

\* Variant of RunTransforms that goes on to the next transform after a drop.
RECURSIVE RunTransforms_NoBreak(_, _, _)
RunTransforms_NoBreak(r, tf, i) ==
    IF i > MaxTransforms THEN [rep |-> r, skipped |-> FALSE, applied |-> i - 1]
    ELSE IF tf[i].err
         THEN [rep |-> [r EXCEPT !.normalized_failed = @ + 1], skipped |-> TRUE,
               applied |-> i]
    ELSE IF tf[i].drop
         THEN [RunTransforms_NoBreak(AddFiltered(r, tf[i].reason), tf, i + 1)
                   EXCEPT !.skipped = TRUE]
    ELSE RunTransforms_NoBreak(r, tf, i + 1)

\* main.go:392-407: the transform loop from transform i on; `applied` is the
\* number of transforms it has called when it ends.
RECURSIVE RunTransforms(_, _, _)
RunTransforms(r, tf, i) ==
    IF i > MaxTransforms THEN [rep |-> r, skipped |-> FALSE, applied |-> i - 1]
    ELSE IF tf[i].err
         THEN [rep |-> [r EXCEPT !.normalized_failed = @ + 1], skipped |-> TRUE,
               applied |-> i]
    ELSE IF tf[i].drop
         THEN [rep |-> AddFiltered(r, tf[i].reason), skipped |-> TRUE,
               applied |-> i]
    ELSE RunTransforms(r, tf, i + 1)

\* Variant of ParseStage that does not count a line that fails to decode.
ParseStage_NoFailCount(r, ln) ==
    LET r1 == [r EXCEPT !.total_lines = @ + 1]
    IN IF ~ln.json THEN r1 ELSE [r1 EXCEPT !.json_parsed = @ + 1]

\* main.go:358-374: count the line and decode it.
ParseStage(r, ln) ==
    LET r1 == [r EXCEPT !.total_lines = @ + 1]
    IN IF ~ln.json THEN [r1 EXCEPT !.json_failed = @ + 1]
       ELSE [r1 EXCEPT !.json_parsed = @ + 1]

\* main.go:376-411: normalize and transform a decoded line.
NormalizeStage(r, ln) ==
    IF ~ln.norm
    THEN [rep |-> [r EXCEPT !.normalized_failed = @ + 1], skipped |-> TRUE,
          applied |-> 0]
    ELSE RunTransforms([r EXCEPT !.normalized_ok = @ + 1], ln.tf, 1)

\* main.go:353-411: one iteration of the loop body up to the send.
ProcessLine(r, ln) ==
    IF ln.blank THEN [rep |-> r, skipped |-> TRUE, applied |-> 0]
    ELSE IF ~ln.json
         THEN [rep |-> ParseStage(r, ln), skipped |-> TRUE, applied |-> 0]
    ELSE NormalizeStage(ParseStage(r, ln), ln)

\* main.go:359, 368, 374, 381, 386, 396: the counters the loop body increments
\* as plain fields of the report (rep.TotalLines++), not through a method of
\* Report, which would lock Report.mu (report.go:246-340).
DirectFields ==
    {"total_lines", "json_failed", "json_parsed", "normalized_failed", "normalized_ok"}

\* The counters written as plain fields in a step of the loop body that takes
\* the report from r to r2.
DirectWrites(r, r2) == {f \in DirectFields : r[f] # r2[f]}

(***************************************************************************)
(* Initial state: runPipeline has built its sinks and started the workers  *)
(* (main.go:234-338).                                                      *)
(***************************************************************************)
Configs ==
    [MaxWorkers : 1..MaxWorkerCfg, QueueSize : 0..MaxQueueCfg,
     BatchSize : 1..MaxBatchCfg, DLQ : BOOLEAN,
     SinkMaxRetries : MinRetryCfg..MaxRetryCfg, Output : {"file", "http"}]

\* The plain configuration: one worker, no batching, no DLQ, no retries.
PlainConfig(c) ==
    /\ c.MaxWorkers = 1
    /\ c.BatchSize = 1
    /\ ~c.DLQ
    /\ c.SinkMaxRetries = 0
    /\ c.Output = "file"

\* The HTTP sink and a negative sink_max_retries are explored behind one
\* worker, without batching.
HTTPConfig(c) ==
    (c.Output = "http" \/ c.SinkMaxRetries < 0) => (c.MaxWorkers = 1 /\ c.BatchSize = 1)

\* A queue_size of 0, which Validate accepts (config.go:586-588), is explored
\* with the plain configuration.
UnsetQueueConfig(c) == c.QueueSize <= 0 => PlainConfig(c)

\* No rotating sink has been constructed.
NoRotatingSink == [open |-> FALSE]

\* No record is followed through Normalize and filter_redact.
NoStage == [pc |-> "none"]

\* No writeWithRetry call is followed through its waits.
NoBackoff == [pc |-> "none"]

\* writeWithRetry has made no Write call yet.
NoTries == [calls |-> 0, fails |-> 0]

\* The runs explored. The load of a run, its worker count plus its number of
\* input lines, is bounded by MaxLoad; inputs holding every kind of line are
\* fed to the plain configuration, inputs of PlainLines to every configuration.
Inputs ==
    [nLines : 0..MaxLines, lines : {"plain", "all"}]

InputLines == IF input.lines = "all" THEN Lines ELSE PlainLines

PipelineInit ==
    /\ cfg \in Configs
    /\ input \in Inputs
    /\ cfg.MaxWorkers + input.nLines <= MaxLoad
    /\ input.lines = "all" => PlainConfig(cfg)
    /\ HTTPConfig(cfg)
    /\ UnsetQueueConfig(cfg)
    /\ cancelled = FALSE
    /\ mpc = "scan" /\ pos = 0 /\ line = BlankLine /\ pending = 0
    /\ shutdownRequested = FALSE /\ result = "running"
    /\ queue = <<>> /\ qclosed = FALSE /\ enqueued = <<>>
    /\ wpc = [w \in Workers |-> "recv"]
    /\ item = [w \in Workers |-> 0]
    /\ attempt = [w \in Workers |-> 0]
    /\ retries = [w \in Workers |-> 0]
    /\ werr = [w \in Workers |-> ""]
    /\ tries = [w \in Workers |-> NoTries]
    /\ hattempt = [w \in Workers |-> 0]
    /\ postLog = [i \in 1..MaxLines |-> 0]
    /\ postFail = [i \in 1..MaxLines |-> 0]
    /\ lock = NoThread
    /\ sinkBusy = {} /\ sinkClosing = {} /\ sinkCloses = 0
    /\ sinkLog = [i \in 1..MaxLines |-> 0]
    /\ dlqLock = NoThread /\ dlqBusy = {} /\ dlqClosing = {}
    /\ dlqCloses = 0 /\ dlqLog = [i \in 1..MaxLines |-> <<>>]
    /\ buffer = <<>>
    /\ fbatch = [t \in Threads |-> <<>>]
    /\ fpc = IF batching THEN "idle" ELSE "none"
    /\ bctxDone = FALSE /\ tickerStopped = FALSE /\ tick = FALSE
    /\ rep = NewReport
    /\ counted = [i \in 1..MaxLines |-> 0]
    /\ applied = 0 /\ unsynced = {}

\* A run of the pipeline; it is explored without a rotating sink and without
\* the contents of its records.
Init ==
    PipelineInit /\ rot = NoRotatingSink /\ stage = NoStage /\ backoff = NoBackoff

(***************************************************************************)
(* The cancellation token (main.go:148).                                   *)
(***************************************************************************)
Cancel ==
    /\ ~cancelled
    /\ mpc # "returned"
    /\ cancelled' = TRUE
    /\ UNCHANGED <<cfg, input, httpVars, rotVars, stageVars, backoffVars,
                   producerVars,
                   mainVars, queueVars, workerVars, lock, sinkVars,
                   dlqVars, batchVars, rep, counted>>

(***************************************************************************)
(* The producer loop (main.go:340-418).                                    *)
(***************************************************************************)
\* main.go:420-429: close the queue and start waiting for the workers.
CloseQueueAndWait ==
    /\ qclosed' = TRUE
    /\ mpc' = "wait"

\* scanner.Scan() returned a line and the token is not cancelled: the loop body.
ProducerLine ==
    /\ mpc = "scan"
    /\ pos < input.nLines
    /\ ~cancelled
    /\ \E ln \in InputLines :
         LET out == ProcessLine(rep, ln)
         IN /\ line' = ln
            /\ rep' = out.rep
            /\ applied' = out.applied
            /\ unsynced' = unsynced \cup DirectWrites(rep, out.rep)
            /\ pos' = pos + 1
            /\ IF out.skipped
               THEN /\ mpc' = "scan"
                    /\ pending' = 0
               ELSE /\ mpc' = "send"
                    /\ pending' = pos + 1
    /\ UNCHANGED <<cfg, input, httpVars, rotVars, stageVars, backoffVars,
                   cancelled, shutdownRequested, result, queueVars,
                   workerVars, lock, sinkVars, dlqVars, batchVars, counted>>

\* main.go:342-351: scanner.Scan() returned a line, the token is cancelled.
ProducerShutdown ==
    /\ mpc = "scan"
    /\ pos < input.nLines
    /\ cancelled
    /\ shutdownRequested' = TRUE
    /\ pos' = pos + 1
    /\ CloseQueueAndWait
    /\ UNCHANGED <<cfg, input, httpVars, rotVars, stageVars, backoffVars,
                   producerVars,
                   cancelled, line, pending, result, queue, enqueued,
                   workerVars, lock, sinkVars, dlqVars, batchVars, rep, counted>>

\* main.go:340, 416-422: scanner.Scan() returned false at the end of the input.
ProducerEOF ==
    /\ mpc = "scan"
    /\ pos = input.nLines
    /\ CloseQueueAndWait
    /\ UNCHANGED <<cfg, input, httpVars, rotVars, stageVars, backoffVars,
                   producerVars,
                   cancelled, pos, line, pending, shutdownRequested, result,
                   queue, enqueued, workerVars, lock, sinkVars, dlqVars,
                   batchVars, rep, counted>>

\* The deferred closes run in reverse order of their registration
\* (main.go:246-250, 260-264, 276-280): DLQ, batched sink, underlying sink.
FirstDefer ==
    IF dlqConfigured THEN "defer_dlq"
    ELSE IF batching THEN "defer_batch" ELSE "defer_sink"

\* main.go:416-418: scanner.Err() is not nil (a read error, a line too long).
ProducerScanError ==
    /\ mpc = "scan"
    /\ pos = input.nLines
    /\ result' = "scanner error"
    /\ mpc' = FirstDefer
    /\ UNCHANGED <<cfg, input, httpVars, rotVars, stageVars, backoffVars,
                   producerVars,
                   cancelled, pos, line, pending, shutdownRequested, queueVars,
                   workerVars, lock, sinkVars, dlqVars, batchVars, rep, counted>>

\* Variant of CanSend for a channel without capacity limit.
CanSend_Unbounded(q) == TRUE

\* A send on the buffered channel can proceed.
CanSend(q) == Len(q) < queueSize

\* main.go:413: queue <- workItem{record: normalized}
ProducerSend ==
    /\ mpc = "send"
    /\ CanSend(queue)
    /\ queue' = Append(queue, pending)
    /\ enqueued' = Append(enqueued, pending)
    /\ pending' = 0
    /\ mpc' = "scan"
    /\ UNCHANGED <<cfg, input, httpVars, rotVars, stageVars, backoffVars,
                   producerVars,
                   cancelled, pos, line, shutdownRequested, result,
                   qclosed,
                   workerVars, lock, sinkVars, dlqVars, batchVars, rep, counted>>

(***************************************************************************)
(* The final wait (main.go:424-455).                                       *)
(***************************************************************************)
AllWorkersDone == \A w \in Workers : wpc[w] = "done"

\* case <-done: all workers finished; the report is written (or fails to be).
WaitDone ==
    /\ mpc = "wait"
    /\ AllWorkersDone
    /\ \E r \in {"nil", "write report"} : result' = r
    /\ mpc' = FirstDefer
    /\ UNCHANGED <<cfg, input, httpVars, rotVars, stageVars, backoffVars,
                   producerVars,
                   cancelled, pos, line, pending, shutdownRequested, queueVars,
                   workerVars, lock, sinkVars, dlqVars, batchVars, rep, counted>>

\* case <-time.After(shutdownTimeout)
WaitTimeout ==
    /\ mpc = "wait"
    /\ result' = "shutdown timeout"
    /\ mpc' = FirstDefer
    /\ UNCHANGED <<cfg, input, httpVars, rotVars, stageVars, backoffVars,
                   producerVars,
                   cancelled, pos, line, pending, shutdownRequested, queueVars,
                   workerVars, lock, sinkVars, dlqVars, batchVars, rep, counted>>

\* case <-ctx.Done()
WaitCancelled ==
    /\ mpc = "wait"
    /\ cancelled
    /\ result' = ErrCanceled
    /\ mpc' = FirstDefer
    /\ UNCHANGED <<cfg, input, httpVars, rotVars, stageVars, backoffVars,
                   producerVars,
                   cancelled, pos, line, pending, shutdownRequested, queueVars,
                   workerVars, lock, sinkVars, dlqVars, batchVars, rep, counted>>

(***************************************************************************)
(* The workers (main.go:301-335) and writeWithRetry (main.go:480-537).     *)
(***************************************************************************)
\* main.go:306-308: case <-ctx.Done(): return
WorkerCtxDone(w) ==
    /\ wpc[w] = "recv"
    /\ cancelled
    /\ wpc' = [wpc EXCEPT ![w] = "done"]
    /\ UNCHANGED <<cfg, input, httpVars, rotVars, stageVars, backoffVars,
                   producerVars,
                   cancelled, mainVars, queueVars, item, tries, hattempt, attempt, retries,
                   werr, lock, sinkVars, dlqVars, batchVars, rep, counted>>

\* main.go:309, 313-314: case item, ok := <-queue with ok; writeWithRetry starts.
WorkerRecv(w) ==
    /\ wpc[w] = "recv"
    /\ Len(queue) > 0
    /\ item' = [item EXCEPT ![w] = Head(queue)]
    /\ queue' = Tail(queue)
    /\ attempt' = [attempt EXCEPT ![w] = 0]
    /\ retries' = [retries EXCEPT ![w] = 0]
    /\ werr' = [werr EXCEPT ![w] = ""]
    /\ tries' = [tries EXCEPT ![w] = NoTries]
    /\ wpc' = [wpc EXCEPT ![w] = "attempt"]
    /\ UNCHANGED <<cfg, input, httpVars, rotVars, stageVars, backoffVars,
                   producerVars,
                   hattempt,
                   cancelled, mainVars, qclosed, enqueued, lock, sinkVars,
                   dlqVars, batchVars, rep, counted>>

\* Variant of WorkerQueueClosed that returns as soon as the queue is closed,
\* with records still in it.
WorkerQueueClosed_NoDrain(w) ==
    /\ wpc[w] = "recv"
    /\ qclosed
    /\ wpc' = [wpc EXCEPT ![w] = "done"]
    /\ UNCHANGED <<cfg, input, httpVars, rotVars, stageVars, backoffVars,
                   producerVars,
                   cancelled, mainVars, queueVars, item, tries, hattempt, attempt, retries,
                   werr, lock, sinkVars, dlqVars, batchVars, rep, counted>>

\* main.go:309-312: the queue is closed and empty: return
WorkerQueueClosed(w) ==
    /\ wpc[w] = "recv"
    /\ queue = <<>>
    /\ qclosed
    /\ wpc' = [wpc EXCEPT ![w] = "done"]
    /\ UNCHANGED <<cfg, input, httpVars, rotVars, stageVars, backoffVars,
                   producerVars,
                   cancelled, mainVars, queueVars, item, tries, hattempt, attempt, retries,
                   werr, lock, sinkVars, dlqVars, batchVars, rep, counted>>

\* Variant of WriteFailed in which a cancelled write skips the DLQ.
WriteFailed_CancelSkipsDLQ(w, err, r) ==
    /\ rep' = AddWriteFailed(r)
    /\ counted' = [counted EXCEPT ![item[w]] = @ + 1]
    /\ werr' = [werr EXCEPT ![w] = err]
    /\ wpc' = [wpc EXCEPT ![w] = IF dlqConfigured /\ err # ErrCanceled
                                 THEN "dlq" ELSE "recv"]

\* main.go:316-327: writeWithRetry returned err: count the failure, then the DLQ.
WriteFailed(w, err, r) ==
    /\ rep' = AddWriteFailed(r)
    /\ counted' = [counted EXCEPT ![item[w]] = @ + 1]
    /\ werr' = [werr EXCEPT ![w] = err]
    /\ wpc' = [wpc EXCEPT ![w] = IF dlqConfigured THEN "dlq" ELSE "recv"]

\* main.go:508-513, 328: the write returned nil: record the retries, count it.
WriteSucceeded(w) ==
    /\ rep' = AddWriteOK(IF retries[w] > 0 THEN AddRetry(rep, retries[w]) ELSE rep)
    /\ counted' = [counted EXCEPT ![item[w]] = @ + 1]
    /\ wpc' = [wpc EXCEPT ![w] = "recv"]

\* main.go:515-519, 533-536: the write returned an error: give up or back off.
WriteErrored(w) ==
    /\ tries' = [tries EXCEPT ![w].fails = @ + 1]
    /\ IF attempt[w] = maxRetries
       THEN /\ WriteFailed(w, ErrWrite,
                           IF retries[w] > 0 THEN AddRetry(rep, retries[w]) ELSE rep)
            /\ UNCHANGED retries
       ELSE /\ retries' = [retries EXCEPT ![w] = @ + 1]
            /\ wpc' = [wpc EXCEPT ![w] = "backoff"]
            /\ UNCHANGED <<rep, counted, werr>>

\* main.go:502-506: the token is cancelled before an attempt.
WorkerAttemptCancelled(w) ==
    /\ wpc[w] = "attempt"
    /\ cancelled
    /\ WriteFailed(w, ErrCanceled, rep)
    /\ UNCHANGED <<cfg, input, httpVars, rotVars, stageVars, backoffVars,
                   producerVars,
                   cancelled, mainVars, queueVars, item, tries, hattempt, attempt, retries,
                   lock, sinkVars, dlqVars, batchVars>>

\* Variant of WorkerAttempt without the look at ctx.Done().
WorkerAttempt_NoCheck(w) ==
    /\ wpc[w] = "attempt"
    /\ wpc' = [wpc EXCEPT ![w] = "lock"]
    /\ UNCHANGED <<cfg, input, httpVars, rotVars, stageVars, backoffVars,
                   producerVars,
                   cancelled, mainVars, queueVars,
                   item, tries, hattempt, attempt, retries, werr, lock, sinkVars,
                   dlqVars, batchVars, rep, counted>>

\* main.go:502-508: the token is not cancelled: go on to w.Write(record).
WorkerAttempt(w) ==
    /\ wpc[w] = "attempt"
    /\ ~cancelled
    /\ wpc' = [wpc EXCEPT ![w] = "lock"]
    /\ UNCHANGED <<cfg, input, httpVars, rotVars, stageVars, backoffVars,
                   producerVars,
                   cancelled, mainVars, queueVars, item, tries, hattempt, attempt, retries,
                   werr, lock, sinkVars, dlqVars, batchVars, rep, counted>>

\* main.go:544-547 without batching: take the mutex, enter the sink's Write.
WorkerLockWrite(w) ==
    /\ wpc[w] = "lock"
    /\ ~batching
    /\ lock = NoThread
    /\ lock' = w
    /\ sinkBusy' = sinkBusy \cup {w}
    /\ tries' = [tries EXCEPT ![w].calls = @ + 1]
    /\ hattempt' = [hattempt EXCEPT ![w] = 0]
    /\ wpc' = [wpc EXCEPT ![w] = "writing"]
    /\ UNCHANGED <<cfg, input, httpVars, rotVars, stageVars, backoffVars,
                   producerVars,
                   cancelled, mainVars, queueVars, item, attempt, retries,
                   werr, sinkClosing, sinkCloses, sinkLog, dlqVars, batchVars,
                   rep, counted>>

\* The sink's Write returned nil.
WorkerWriteOK(w) ==
    /\ wpc[w] = "writing"
    /\ ~httpSink
    /\ sinkBusy' = sinkBusy \ {w}
    /\ sinkLog' = [sinkLog EXCEPT ![item[w]] = @ + 1]
    /\ lock' = NoThread
    /\ WriteSucceeded(w)
    /\ UNCHANGED <<cfg, input, httpVars, rotVars, stageVars, backoffVars,
                   producerVars,
                   cancelled, mainVars, queueVars, item, tries, hattempt, attempt, retries,
                   werr, sinkClosing, sinkCloses, dlqVars, batchVars>>

\* The sink's Write returned an error.
WorkerWriteErr(w) ==
    /\ wpc[w] = "writing"
    /\ ~httpSink
    /\ sinkBusy' = sinkBusy \ {w}
    /\ lock' = NoThread
    /\ WriteErrored(w)
    /\ UNCHANGED <<cfg, input, httpVars, rotVars, stageVars, backoffVars,
                   producerVars,
                   cancelled, mainVars, queueVars, item, hattempt, attempt,
                   sinkClosing, sinkCloses, sinkLog, dlqVars, batchVars>>

(***************************************************************************)
(* HTTPSink.Write (batched.go:166-206), entered through lockedWriter.Write *)
(* when the main sink is the HTTP sink.                                    *)
(***************************************************************************)
\* batched.go:173-196: the loop runs, the POST is answered with a 2xx status:
\* return nil.
HTTPPostOK(w) ==
    /\ wpc[w] = "writing"
    /\ httpSink
    /\ hattempt[w] <= hsMaxRetries
    /\ postLog' = [postLog EXCEPT ![item[w]] = @ + 1]
    /\ sinkLog' = [sinkLog EXCEPT ![item[w]] = @ + 1]
    /\ sinkBusy' = sinkBusy \ {w}
    /\ lock' = NoThread
    /\ WriteSucceeded(w)
    /\ UNCHANGED <<cfg, input, rotVars, stageVars, backoffVars,
                   producerVars,
                   postFail, cancelled, mainVars, queueVars,
                   item, tries, hattempt, attempt, retries, werr, sinkClosing,
                   sinkCloses, dlqVars, batchVars>>

\* batched.go:180-186, 198-202: the POST fails (a transport error or a status
\* outside 2xx) with attempts left: sleep, attempt++.
HTTPPostRetry(w) ==
    /\ wpc[w] = "writing"
    /\ httpSink
    /\ hattempt[w] < hsMaxRetries
    /\ postLog' = [postLog EXCEPT ![item[w]] = @ + 1]
    /\ postFail' = [postFail EXCEPT ![item[w]] = @ + 1]
    /\ hattempt' = [hattempt EXCEPT ![w] = @ + 1]
    /\ UNCHANGED <<cfg, input, rotVars, stageVars, backoffVars,
                   producerVars,
                   cancelled, mainVars, queueVars, wpc, item,
                   attempt, retries, werr, tries, lock, sinkVars, dlqVars,
                   batchVars, rep, counted>>

\* batched.go:180-187, 198-205: the POST of the last attempt fails: return
\* lastErr.
HTTPPostFailed(w) ==
    /\ wpc[w] = "writing"
    /\ httpSink
    /\ hattempt[w] = hsMaxRetries
    /\ postLog' = [postLog EXCEPT ![item[w]] = @ + 1]
    /\ postFail' = [postFail EXCEPT ![item[w]] = @ + 1]
    /\ sinkBusy' = sinkBusy \ {w}
    /\ lock' = NoThread
    /\ WriteErrored(w)
    /\ UNCHANGED <<cfg, input, rotVars, stageVars, backoffVars,
                   producerVars,
                   cancelled, mainVars, queueVars, item,
                   hattempt, attempt, sinkClosing, sinkCloses, sinkLog, dlqVars,
                   batchVars>>

\* batched.go:172-173, 205: hs.maxRetries is negative, the loop body never
\* runs: return lastErr, which is nil.
HTTPNoAttempt(w) ==
    /\ wpc[w] = "writing"
    /\ httpSink
    /\ hattempt[w] > hsMaxRetries
    /\ sinkBusy' = sinkBusy \ {w}
    /\ lock' = NoThread
    /\ WriteSucceeded(w)
    /\ UNCHANGED <<cfg, input, httpVars, rotVars, stageVars, backoffVars,
                   producerVars,
                   cancelled, mainVars, queueVars,
                   item, tries, hattempt, attempt, retries, werr, sinkClosing,
                   sinkCloses, sinkLog, dlqVars, batchVars>>

\* main.go:527-531: case <-time.After(sleep + jitter), then attempt++
WorkerBackoffDone(w) ==
    /\ wpc[w] = "backoff"
    /\ attempt' = [attempt EXCEPT ![w] = @ + 1]
    /\ wpc' = [wpc EXCEPT ![w] = "attempt"]
    /\ UNCHANGED <<cfg, input, httpVars, rotVars, stageVars, backoffVars,
                   producerVars,
                   cancelled, mainVars, queueVars, item, tries, hattempt, retries, werr,
                   lock, sinkVars, dlqVars, batchVars, rep, counted>>

\* main.go:527-529: case <-ctx.Done(): return retries, ctx.Err()
WorkerBackoffCancelled(w) ==
    /\ wpc[w] = "backoff"
    /\ cancelled
    /\ WriteFailed(w, ErrCanceled, rep)
    /\ UNCHANGED <<cfg, input, httpVars, rotVars, stageVars, backoffVars,
                   producerVars,
                   cancelled, mainVars, queueVars, item, tries, hattempt, attempt, retries,
                   lock, sinkVars, dlqVars, batchVars>>

(***************************************************************************)
(* The batching wrapper on the workers' path (batched.go:51-83), entered   *)
(* through lockedWriter.Write (main.go:544-547).                           *)
(***************************************************************************)
\* batched.go:55
shouldFlush(buf) == Len(buf) >= cfg.BatchSize

\* batched.go:52-62: take the mutex of the lock wrapper, append to the buffer;
\* below the batch size Write returns nil.
WorkerLockAppend(w) ==
    /\ wpc[w] = "lock"
    /\ batching
    /\ lock = NoThread
    /\ buffer' = Append(buffer, item[w])
    /\ tries' = [tries EXCEPT ![w].calls = @ + 1]
    /\ IF shouldFlush(buffer')
       THEN /\ lock' = w
            /\ wpc' = [wpc EXCEPT ![w] = "flush"]
            /\ UNCHANGED <<rep, counted>>
       ELSE /\ lock' = NoThread
            /\ WriteSucceeded(w)
    /\ UNCHANGED <<cfg, input, httpVars, rotVars, stageVars, backoffVars,
                   producerVars,
                   cancelled, mainVars, queueVars, item, hattempt, attempt, retries,
                   werr, sinkVars, dlqVars, fbatch, fpc, bctxDone,
                   tickerStopped, tick>>

\* batched.go:66-70: flush() finds the buffer empty and returns nil.
WorkerFlushEmpty(w) ==
    /\ wpc[w] = "flush"
    /\ buffer = <<>>
    /\ lock' = NoThread
    /\ WriteSucceeded(w)
    /\ UNCHANGED <<cfg, input, httpVars, rotVars, stageVars, backoffVars,
                   producerVars,
                   cancelled, mainVars, queueVars, item, tries, hattempt, attempt, retries,
                   werr, sinkVars, dlqVars, batchVars>>

\* batched.go:71-78: flush() copies the buffer, clears it and enters the
\* wrapped sink's Write for the first record of the batch.
WorkerFlush(w) ==
    /\ wpc[w] = "flush"
    /\ buffer # <<>>
    /\ fbatch' = [fbatch EXCEPT ![w] = buffer]
    /\ buffer' = <<>>
    /\ sinkBusy' = sinkBusy \cup {w}
    /\ wpc' = [wpc EXCEPT ![w] = "bwriting"]
    /\ UNCHANGED <<cfg, input, httpVars, rotVars, stageVars, backoffVars,
                   producerVars,
                   cancelled, mainVars, queueVars, item, tries, hattempt, attempt, retries,
                   werr, lock, sinkClosing, sinkCloses, sinkLog, dlqVars, fpc,
                   bctxDone, tickerStopped, tick, rep, counted>>

\* batched.go:77-82: the wrapped Write returned nil: next record, or return nil.
WorkerBatchWriteOK(w) ==
    /\ wpc[w] = "bwriting"
    /\ sinkLog' = [sinkLog EXCEPT ![Head(fbatch[w])] = @ + 1]
    /\ fbatch' = [fbatch EXCEPT ![w] = Tail(@)]
    /\ IF Tail(fbatch[w]) = <<>>
       THEN /\ sinkBusy' = sinkBusy \ {w}
            /\ lock' = NoThread
            /\ WriteSucceeded(w)
       ELSE UNCHANGED <<sinkBusy, lock, wpc, rep, counted>>
    /\ UNCHANGED <<cfg, input, httpVars, rotVars, stageVars, backoffVars,
                   producerVars,
                   cancelled, mainVars, queueVars, item, tries, hattempt, attempt, retries,
                   werr, sinkClosing, sinkCloses, dlqVars, buffer, fpc,
                   bctxDone, tickerStopped, tick>>

\* batched.go:78-80: the wrapped Write returned an error: flush() returns it
\* and the rest of the copied batch is gone with it.
WorkerBatchWriteErr(w) ==
    /\ wpc[w] = "bwriting"
    /\ sinkBusy' = sinkBusy \ {w}
    /\ fbatch' = [fbatch EXCEPT ![w] = <<>>]
    /\ lock' = NoThread
    /\ WriteErrored(w)
    /\ UNCHANGED <<cfg, input, httpVars, rotVars, stageVars, backoffVars,
                   producerVars,
                   cancelled, mainVars, queueVars, item, hattempt, attempt,
                   sinkClosing, sinkCloses, sinkLog, dlqVars, buffer, fpc,
                   bctxDone, tickerStopped, tick>>

(***************************************************************************)
(* The DLQ branch of a worker (main.go:319-326).                           *)
(***************************************************************************)
\* main.go:321, 544-547: take the DLQ's mutex and enter its Write.
WorkerDLQLock(w) ==
    /\ wpc[w] = "dlq"
    /\ dlqLock = NoThread
    /\ dlqLock' = w
    /\ dlqBusy' = dlqBusy \cup {w}
    /\ wpc' = [wpc EXCEPT ![w] = "dlqwriting"]
    /\ UNCHANGED <<cfg, input, httpVars, rotVars, stageVars, backoffVars,
                   producerVars,
                   cancelled, mainVars, queueVars, item, tries, hattempt, attempt, retries,
                   werr, lock, sinkVars, dlqClosing, dlqCloses, dlqLog,
                   batchVars, rep, counted>>

\* main.go:321-326: the DLQ Write returned (nil or an error, which is only
\* logged); rep.AddDLQWithReason(reason) follows in both cases.
WorkerDLQWritten(w, ok) ==
    /\ wpc[w] = "dlqwriting"
    /\ dlqBusy' = dlqBusy \ {w}
    /\ dlqLock' = NoThread
    /\ dlqLog' = IF ok
                 THEN [dlqLog EXCEPT ![item[w]] = Append(@, werr[w])]
                 ELSE dlqLog
    /\ rep' = AddDLQWithReason(rep, werr[w])
    /\ wpc' = [wpc EXCEPT ![w] = "recv"]
    /\ UNCHANGED <<cfg, input, httpVars, rotVars, stageVars, backoffVars,
                   producerVars,
                   cancelled, mainVars, queueVars, item, tries, hattempt, attempt, retries,
                   werr, lock, sinkVars, dlqClosing, dlqCloses, batchVars,
                   counted>>

(***************************************************************************)
(* BatchedSink.flushLoop (batched.go:85-99).                               *)
(***************************************************************************)
\* A tick can be received from flushTicker.C: the running ticker sends one
\* whenever the interval has elapsed; a stopped one may have left one behind.
TickReady == tick \/ ~tickerStopped

\* batched.go:92-93, 66-70: a tick, and flush() finds the buffer empty.
FlusherTickEmpty ==
    /\ fpc = "idle"
    /\ TickReady
    /\ buffer = <<>>
    /\ tick' = FALSE
    /\ UNCHANGED <<cfg, input, httpVars, rotVars, stageVars, backoffVars,
                   producerVars,
                   cancelled, mainVars, queueVars, workerVars, lock,
                   sinkVars, dlqVars, buffer, fbatch, fpc, bctxDone,
                   tickerStopped, rep, counted>>

\* batched.go:92-93, 71-78: a tick, and flush() copies and clears the buffer
\* and enters the wrapped sink's Write.
FlusherTick ==
    /\ fpc = "idle"
    /\ TickReady
    /\ buffer # <<>>
    /\ tick' = FALSE
    /\ fbatch' = [fbatch EXCEPT ![FlusherT] = buffer]
    /\ buffer' = <<>>
    /\ sinkBusy' = sinkBusy \cup {FlusherT}
    /\ fpc' = "writing"
    /\ UNCHANGED <<cfg, input, httpVars, rotVars, stageVars, backoffVars,
                   producerVars,
                   cancelled, mainVars, queueVars, workerVars, lock,
                   sinkClosing, sinkCloses, sinkLog, dlqVars, bctxDone,
                   tickerStopped, rep, counted>>

\* batched.go:77-82: the flusher's wrapped Write returned nil.
FlusherWriteOK ==
    /\ fpc = "writing"
    /\ sinkLog' = [sinkLog EXCEPT ![Head(fbatch[FlusherT])] = @ + 1]
    /\ fbatch' = [fbatch EXCEPT ![FlusherT] = Tail(@)]
    /\ IF Tail(fbatch[FlusherT]) = <<>>
       THEN /\ sinkBusy' = sinkBusy \ {FlusherT}
            /\ fpc' = "idle"
       ELSE UNCHANGED <<sinkBusy, fpc>>
    /\ UNCHANGED <<cfg, input, httpVars, rotVars, stageVars, backoffVars,
                   producerVars,
                   cancelled, mainVars, queueVars, workerVars, lock,
                   sinkClosing, sinkCloses, dlqVars, buffer, bctxDone,
                   tickerStopped, tick, rep, counted>>

\* batched.go:78-80, 93-96: the flusher's wrapped Write returned an error:
\* flush() returns it and the loop continues.
FlusherWriteErr ==
    /\ fpc = "writing"
    /\ sinkBusy' = sinkBusy \ {FlusherT}
    /\ fbatch' = [fbatch EXCEPT ![FlusherT] = <<>>]
    /\ fpc' = "idle"
    /\ UNCHANGED <<cfg, input, httpVars, rotVars, stageVars, backoffVars,
                   producerVars,
                   cancelled, mainVars, queueVars, workerVars, lock,
                   sinkClosing, sinkCloses, sinkLog, dlqVars, buffer, bctxDone,
                   tickerStopped, tick, rep, counted>>

\* batched.go:90-91: case <-bs.ctx.Done(): return
FlusherExit ==
    /\ fpc = "idle"
    /\ bctxDone
    /\ fpc' = "exited"
    /\ UNCHANGED <<cfg, input, httpVars, rotVars, stageVars, backoffVars,
                   producerVars,
                   cancelled, mainVars, queueVars, workerVars, lock,
                   sinkVars, dlqVars, buffer, fbatch, bctxDone, tickerStopped,
                   tick, rep, counted>>

(***************************************************************************)
(* The deferred closes of runPipeline, run once the result is decided.     *)
(***************************************************************************)
AfterDLQ == IF batching THEN "defer_batch" ELSE "defer_sink"

\* main.go:276-280, 550-553: dlqWriter.Close() takes the mutex, enters Close.
DeferDLQLock ==
    /\ mpc = "defer_dlq"
    /\ dlqLock = NoThread
    /\ dlqLock' = MainT
    /\ dlqClosing' = dlqClosing \cup {MainT}
    /\ mpc' = "dlq_closing"
    /\ UNCHANGED <<cfg, input, httpVars, rotVars, stageVars, backoffVars,
                   producerVars,
                   cancelled, pos, line, pending, shutdownRequested, result,
                   queueVars, workerVars, lock, sinkVars, dlqBusy, dlqCloses,
                   dlqLog, batchVars, rep, counted>>

\* The DLQ sink's Close returned.
DeferDLQClosed ==
    /\ mpc = "dlq_closing"
    /\ dlqClosing' = dlqClosing \ {MainT}
    /\ dlqCloses' = dlqCloses + 1
    /\ dlqLock' = NoThread
    /\ mpc' = AfterDLQ
    /\ UNCHANGED <<cfg, input, httpVars, rotVars, stageVars, backoffVars,
                   producerVars,
                   cancelled, pos, line, pending, shutdownRequested, result,
                   queueVars, workerVars, lock, sinkVars, dlqBusy, dlqLog,
                   batchVars, rep, counted>>

\* main.go:260-264, batched.go:102-107: batchedSink.Close() cancels the
\* flusher's context and stops the ticker (a tick already sent stays in the
\* channel), then waits for the flusher.
DeferBatchStop ==
    /\ mpc = "defer_batch"
    /\ bctxDone' = TRUE
    /\ tickerStopped' = TRUE
    /\ tick' \in BOOLEAN
    /\ mpc' = "batch_wait"
    /\ UNCHANGED <<cfg, input, httpVars, rotVars, stageVars, backoffVars,
                   producerVars,
                   cancelled, pos, line, pending, shutdownRequested, result,
                   queueVars, workerVars, lock, sinkVars, dlqVars, buffer,
                   fbatch, fpc, rep, counted>>

\* batched.go:107-114, 66-70: the flusher has exited, the last flush() finds
\* the buffer empty, Close enters the wrapped sink's Close.
DeferBatchFlushEmpty ==
    /\ mpc = "batch_wait"
    /\ fpc = "exited"
    /\ buffer = <<>>
    /\ sinkClosing' = sinkClosing \cup {MainT}
    /\ mpc' = "batch_closing"
    /\ UNCHANGED <<cfg, input, httpVars, rotVars, stageVars, backoffVars,
                   producerVars,
                   cancelled, pos, line, pending, shutdownRequested, result,
                   queueVars, workerVars, lock, sinkBusy, sinkCloses, sinkLog,
                   dlqVars, batchVars, rep, counted>>

\* batched.go:107-110, 71-78: the flusher has exited, the last flush() copies
\* and clears the buffer and enters the wrapped sink's Write.
DeferBatchFlush ==
    /\ mpc = "batch_wait"
    /\ fpc = "exited"
    /\ buffer # <<>>
    /\ fbatch' = [fbatch EXCEPT ![MainT] = buffer]
    /\ buffer' = <<>>
    /\ sinkBusy' = sinkBusy \cup {MainT}
    /\ mpc' = "batch_writing"
    /\ UNCHANGED <<cfg, input, httpVars, rotVars, stageVars, backoffVars,
                   producerVars,
                   cancelled, pos, line, pending, shutdownRequested, result,
                   queueVars, workerVars, lock, sinkClosing, sinkCloses,
                   sinkLog, dlqVars, fpc, bctxDone, tickerStopped, tick, rep,
                   counted>>

\* batched.go:77-82, 114: the wrapped Write returned nil: next record, or the
\* flush is over and Close enters the wrapped sink's Close.
DeferBatchWriteOK ==
    /\ mpc = "batch_writing"
    /\ sinkLog' = [sinkLog EXCEPT ![Head(fbatch[MainT])] = @ + 1]
    /\ fbatch' = [fbatch EXCEPT ![MainT] = Tail(@)]
    /\ IF Tail(fbatch[MainT]) = <<>>
       THEN /\ sinkBusy' = sinkBusy \ {MainT}
            /\ sinkClosing' = sinkClosing \cup {MainT}
            /\ mpc' = "batch_closing"
       ELSE UNCHANGED <<sinkBusy, sinkClosing, mpc>>
    /\ UNCHANGED <<cfg, input, httpVars, rotVars, stageVars, backoffVars,
                   producerVars,
                   cancelled, pos, line, pending, shutdownRequested, result,
                   queueVars, workerVars, lock, sinkCloses, dlqVars, buffer,
                   fpc, bctxDone, tickerStopped, tick, rep, counted>>

\* batched.go:78-80, 110-112: the wrapped Write returned an error: Close
\* returns it without closing the wrapped sink.
DeferBatchWriteErr ==
    /\ mpc = "batch_writing"
    /\ sinkBusy' = sinkBusy \ {MainT}
    /\ fbatch' = [fbatch EXCEPT ![MainT] = <<>>]
    /\ mpc' = "defer_sink"
    /\ UNCHANGED <<cfg, input, httpVars, rotVars, stageVars, backoffVars,
                   producerVars,
                   cancelled, pos, line, pending, shutdownRequested, result,
                   queueVars, workerVars, lock, sinkClosing, sinkCloses,
                   sinkLog, dlqVars, buffer, fpc, bctxDone, tickerStopped,
                   tick, rep, counted>>

\* batched.go:114: the wrapped sink's Close returned.
DeferBatchClosed ==
    /\ mpc = "batch_closing"
    /\ sinkClosing' = sinkClosing \ {MainT}
    /\ sinkCloses' = sinkCloses + 1
    /\ mpc' = "defer_sink"
    /\ UNCHANGED <<cfg, input, httpVars, rotVars, stageVars, backoffVars,
                   producerVars,
                   cancelled, pos, line, pending, shutdownRequested, result,
                   queueVars, workerVars, lock, sinkBusy, sinkLog, dlqVars,
                   batchVars, rep, counted>>

\* main.go:246-250: sinkWriter.Close(), called on the sink itself.
DeferSinkClose ==
    /\ mpc = "defer_sink"
    /\ sinkClosing' = sinkClosing \cup {MainT}
    /\ mpc' = "sink_closing"
    /\ UNCHANGED <<cfg, input, httpVars, rotVars, stageVars, backoffVars,
                   producerVars,
                   cancelled, pos, line, pending, shutdownRequested, result,
                   queueVars, workerVars, lock, sinkBusy, sinkCloses, sinkLog,
                   dlqVars, batchVars, rep, counted>>

\* The sink's Close returned; runPipeline returns.
DeferSinkClosed ==
    /\ mpc = "sink_closing"
    /\ sinkClosing' = sinkClosing \ {MainT}
    /\ sinkCloses' = sinkCloses + 1
    /\ mpc' = "returned"
    /\ UNCHANGED <<cfg, input, httpVars, rotVars, stageVars, backoffVars,
                   producerVars,
                   cancelled, pos, line, pending, shutdownRequested, result,
                   queueVars, workerVars, lock, sinkBusy, sinkLog, dlqVars,
                   batchVars, rep, counted>>

(***************************************************************************)
(* The pipeline.                                                           *)
(***************************************************************************)
(* RotatingJSONLSink (batched.go:226-309), on its own: one caller writes   *)
(* records of some size to a sink constructed in an empty directory. File  *)
(* 0 is basePath, file k is basePath.k.                                    *)
(***************************************************************************)
\* The variables of the pipeline, which a rotating sink on its own leaves alone.
pipelineVars ==
    <<cfg, input, cancelled, mainVars, queueVars, workerVars, lock, sinkVars,
      dlqVars, batchVars, rep, counted, httpVars, producerVars>>

\* batched.go:237-248, 290-305: NewRotatingJSONLSink creates basePath.
NewRotatingJSONLSink(maxBytes, maxFiles) ==
    [open |-> TRUE, maxBytes |-> maxBytes, maxFiles |-> maxFiles, index |-> 0,
     currentSize |-> 0, current |-> "open", files |-> {0}]

\* Variant of Retained that never removes a file.
Retained_NoRemove(files, index, maxFiles) == files

\* batched.go:283-286: the files left once rotate() has removed the oldest.
Retained(files, index, maxFiles) ==
    IF maxFiles > 0 /\ index > maxFiles THEN files \ {index - maxFiles} ELSE files

\* batched.go:278-288, 290-305: rotate() closes the segment, increments the
\* index, removes the oldest file and creates the next one, or fails to.
rotate(s, created) ==
    LET idx == s.index + 1
        kept == Retained(s.files, idx, s.maxFiles)
    IN IF created
       THEN [s EXCEPT !.index = idx, !.files = kept \cup {idx},
                      !.currentSize = 0, !.current = "open"]
       ELSE [s EXCEPT !.index = idx, !.files = kept, !.current = "closed"]

\* batched.go:257: the record does not fit into the current segment.
mustRotate(s, size) == s.currentSize + size > s.maxBytes

\* batched.go:250-269: Write of a record of `size` bytes which returns nil,
\* after a rotation if the record does not fit.
RotWrite(size) ==
    /\ rot.open /\ rot.current = "open"
    /\ mustRotate(rot, size) => rot.index < MaxIndex
    /\ LET s == IF mustRotate(rot, size) THEN rotate(rot, TRUE) ELSE rot
       IN rot' = [s EXCEPT !.currentSize = @ + size]
    /\ UNCHANGED <<pipelineVars, stageVars, backoffVars>>

\* batched.go:257-260, 298-301: the rotation cannot create the next file:
\* Write returns the error and the sink is left with its closed segment.
RotWriteCreateFails(size) ==
    /\ rot.open /\ rot.current = "open"
    /\ mustRotate(rot, size) /\ rot.index < MaxIndex
    /\ rot' = rotate(rot, FALSE)
    /\ UNCHANGED <<pipelineVars, stageVars, backoffVars>>

\* batched.go:271-276: Close closes the current segment.
RotClose ==
    /\ rot.open /\ rot.current = "open"
    /\ rot' = [rot EXCEPT !.current = "closed"]
    /\ UNCHANGED <<pipelineVars, stageVars, backoffVars>>

\* batched.go:257-266: with the segment closed rotate() and current.Write
\* both fail: Write returns an error and changes nothing.
RotWriteClosed(size) ==
    /\ rot.open /\ rot.current = "closed"
    /\ UNCHANGED vars

RecordSizes == 1..MaxRecordSize

RotInit ==
    /\ PipelineInit
    /\ PlainConfig(cfg) /\ cfg.QueueSize = 1
    /\ input = [nLines |-> 0, lines |-> "plain"]
    /\ \E b \in 1..MaxBytesCfg, f \in 0..MaxFilesCfg : rot = NewRotatingJSONLSink(b, f)
    /\ stage = NoStage
    /\ backoff = NoBackoff

RotNext ==
    \/ \E size \in RecordSizes : RotWrite(size)
    \/ \E size \in RecordSizes : RotWriteCreateFails(size)
    \/ RotClose
    \/ \E size \in RecordSizes : RotWriteClosed(size)

RotSpec == RotInit /\ [][RotNext]_vars

(***************************************************************************)
(* stages.Normalize (normalize.go) and the filter_redact transform         *)
(* (filter.go, registry.go:40-51), on their own: one decoded line is       *)
(* normalized and, when Normalize accepts it, handed to the default        *)
(* transform chain, whose survivors the producer sends to the queue.       *)
(*                                                                         *)
(* A string is a sequence of characters. The characters are a blank, one   *)
(* letter in lower and in upper case, and two that each stand for a whole  *)
(* timestamp text: "T", a timestamp as time.Format(time.RFC3339Nano)       *)
(* prints it, and "U", another RFC3339 text of the same instant (a         *)
(* fraction with trailing zeros).                                          *)
(***************************************************************************)
Space == " "
TextAlphabet == {Space, "a", "A"}
TimeAlphabet == {Space, "T", "U"}

StringsOver(alphabet) == UNION {[1..n -> alphabet] : n \in 0..MaxStr}

\* strings.TrimSpace, as called in normalize.go:20.
RECURSIVE TrimLeft(_)
TrimLeft(s) == IF s # <<>> /\ Head(s) = Space THEN TrimLeft(Tail(s)) ELSE s

RECURSIVE TrimRight(_)
TrimRight(s) ==
    IF s # <<>> /\ s[Len(s)] = Space THEN TrimRight(SubSeq(s, 1, Len(s) - 1)) ELSE s

TrimSpace(s) == TrimRight(TrimLeft(s))

\* strings.ToUpper and strings.ToLower, as called in normalize.go:187 and
\* filter.go:50, 61, 78, 83.
ToUpper(s) == [i \in DOMAIN s |-> IF s[i] = "a" THEN "A" ELSE s[i]]
ToLower(s) == [i \in DOMAIN s |-> IF s[i] = "A" THEN "a" ELSE s[i]]

\* A value of the decoded JSON object: a string, a value of another type, or
\* no value (the key is absent); the value at "kubernetes" is an object
\* ("map"), whose members are kept under "kubernetes.<member>", or is not.
Str(s) == [kind |-> "string", s |-> s]
Other == [kind |-> "other", s |-> <<>>]
Absent == [kind |-> "absent", s |-> <<>>]
Map == [kind |-> "map", s |-> <<>>]

\* normalize.go:153-172: the keys Normalize consumes.
Consumed ==
    {"ts", "time", "hostname", "level", "severity", "msg", "message", "service",
     "app", "component", "kubernetes", "trace_id", "trace", "namespace", "pod",
     "node"}

\* normalize.go:90-106: the members of the kubernetes object Normalize reads.
K8sPaths ==
    {"kubernetes.namespace_name", "kubernetes.pod_name", "kubernetes.node_name"}

\* Keys of the decoded object that Normalize does not consume.
ExtraKeys == {"", "token", "keep"}

RawKeys == Consumed \cup K8sPaths \cup ExtraKeys

\* normalize.go:18-21: raw[k] trimmed when it is a string, "" otherwise.
Trimmed(raw, k) == IF raw[k].kind = "string" THEN TrimSpace(raw[k].s) ELSE <<>>

\* normalize.go:18-31, 34-46, 49-61, 64-84, 137-149: the first of the keys, in
\* order, whose trimmed string is not empty.
RECURSIVE FirstOf(_, _)
FirstOf(raw, keys) ==
    IF keys = <<>> THEN <<>>
    ELSE LET s == Trimmed(raw, Head(keys))
         IN IF s # <<>> THEN s ELSE FirstOf(raw, Tail(keys))

\* normalize.go:87-108: a string member of the kubernetes object, as it is.
Nested(raw, path) ==
    IF raw["kubernetes"].kind = "map" /\ raw[path].kind = "string"
    THEN raw[path].s ELSE <<>>

\* normalize.go:90-94, 110-114 (namespace) and 96-100, 116-120 (pod): the
\* top-level string replaces the nested one, neither is trimmed.
Overridden(raw, path, key) ==
    IF raw[key].kind = "string" THEN raw[key].s ELSE Nested(raw, path)

\* normalize.go:102-106, 122-134: the node column.
NodeOf(raw) ==
    LET n1 == Nested(raw, "kubernetes.node_name")
        n2 == IF raw["node"].kind = "string" THEN TrimSpace(raw["node"].s) ELSE n1
    IN IF n2 = <<>> /\ raw["hostname"].kind = "string"
       THEN TrimSpace(raw["hostname"].s) ELSE n2

\* normalize.go:151-172: the top-level keys that are not consumed.
FieldsOf(raw) ==
    [k \in {x \in RawKeys \ K8sPaths : x \notin Consumed /\ raw[x].kind # "absent"}
        |-> raw[k]]

NoError == [msg |-> "", value |-> <<>>]
ErrMissingTimestamp == [msg |-> "missing timestamp", value |-> <<>>]
ErrInvalidTimestamp(ts) == [msg |-> "invalid timestamp", value |-> ts]
ErrMissingMessage == [msg |-> "missing message", value |-> <<>>]
ErrMissingLevel == [msg |-> "missing level", value |-> <<>>]

\* normalize.go:192-206: the error, or the text time.Format(RFC3339Nano)
\* prints for the parsed time (normalize.go:178).
parseTimestamp(ts) ==
    IF ts = <<>> THEN [err |-> ErrMissingTimestamp, text |-> <<>>]
    ELSE IF ts \in {<<"T">>, <<"U">>} THEN [err |-> NoError, text |-> <<"T">>]
    ELSE [err |-> ErrInvalidTimestamp(ts), text |-> <<>>]

\* normalize.go:13-172: the record before validation.
Extract(raw) ==
    [TS |-> FirstOf(raw, <<"ts", "time">>),
     Level |-> FirstOf(raw, <<"level", "severity">>),
     Message |-> FirstOf(raw, <<"msg", "message">>),
     Service |-> FirstOf(raw, <<"service", "app", "component">>),
     Namespace |-> Overridden(raw, "kubernetes.namespace_name", "namespace"),
     Pod |-> Overridden(raw, "kubernetes.pod_name", "pod"),
     Node |-> NodeOf(raw),
     TraceID |-> FirstOf(raw, <<"trace_id", "trace">>),
     Fields |-> FieldsOf(raw)]

\* Variant of Normalize that looks at the level before the message.
Normalize_LevelFirst(raw) ==
    LET output == Extract(raw)
        parsed == parseTimestamp(output.TS)
        stamped == [output EXCEPT !.TS = parsed.text]
    IN IF parsed.err # NoError THEN [rec |-> output, err |-> parsed.err]
       ELSE IF stamped.Level = <<>> THEN [rec |-> stamped, err |-> ErrMissingLevel]
       ELSE IF stamped.Message = <<>>
            THEN [rec |-> stamped, err |-> ErrMissingMessage]
       ELSE [rec |-> [stamped EXCEPT !.Level = ToUpper(@)], err |-> NoError]

\* normalize.go:11-190
Normalize(raw) ==
    LET output == Extract(raw)
        parsed == parseTimestamp(output.TS)
        stamped == [output EXCEPT !.TS = parsed.text]
    IN IF parsed.err # NoError THEN [rec |-> output, err |-> parsed.err]
       ELSE IF stamped.Message = <<>>
            THEN [rec |-> stamped, err |-> ErrMissingMessage]
       ELSE IF stamped.Level = <<>> THEN [rec |-> stamped, err |-> ErrMissingLevel]
       ELSE [rec |-> [stamped EXCEPT !.Level = ToUpper(@)], err |-> NoError]

\* filter.go:44-53
buildUpperSet(values) == {ToUpper(v) : v \in {x \in values : x # <<>>}}

\* filter.go:55-64
buildLowerSet(values) == {ToLower(v) : v \in {x \in values : x # <<>>}}

\* filter.go:66-75
buildExactSet(values) == {v \in values : v # ""}

\* filter.go:17-25
NewFilterStage(c) ==
    [levels |-> buildUpperSet(c.FilterLevels),
     services |-> buildLowerSet(c.FilterSvcs),
     redact |-> buildExactSet(c.RedactKeys)]

\* filter.go:77-80
containsUpper(set, v) == ToUpper(v) \in set

\* Variant of containsLower that compares the service as it is.
containsLower_Exact(set, v) == v \in set

\* filter.go:82-85
containsLower(set, v) == ToLower(v) \in set

\* filter.go:36-40: the record without the redacted fields.
Redacted(f, n) ==
    IF f.redact # {} /\ DOMAIN n.Fields # {}
    THEN [n EXCEPT !.Fields = [k \in DOMAIN n.Fields \ f.redact |-> n.Fields[k]]]
    ELSE n

\* Variant of Apply that leaves the fields alone.
Apply_NoRedact(f, n) ==
    IF f.levels # {} /\ ~containsUpper(f.levels, n.Level)
    THEN [ok |-> FALSE, rec |-> n]
    ELSE IF f.services # {} /\ ~containsLower(f.services, n.Service)
         THEN [ok |-> FALSE, rec |-> n]
    ELSE [ok |-> TRUE, rec |-> n]

\* Variant of Apply that redacts before it looks at the allowlists.
Apply_RedactFirst(f, n) ==
    IF f.levels # {} /\ ~containsUpper(f.levels, n.Level)
    THEN [ok |-> FALSE, rec |-> Redacted(f, n)]
    ELSE IF f.services # {} /\ ~containsLower(f.services, n.Service)
         THEN [ok |-> FALSE, rec |-> Redacted(f, n)]
    ELSE [ok |-> TRUE, rec |-> Redacted(f, n)]

\* filter.go:27-42: whether the record is to be written, and the record.
Apply(f, n) ==
    IF f.levels # {} /\ ~containsUpper(f.levels, n.Level)
    THEN [ok |-> FALSE, rec |-> n]
    ELSE IF f.services # {} /\ ~containsLower(f.services, n.Service)
         THEN [ok |-> FALSE, rec |-> n]
    ELSE [ok |-> TRUE, rec |-> Redacted(f, n)]

\* The reason Apply gives when it rejects a record (registry.go:45 reads it as
\* Apply's second result): the allowlist that rejected it.
ApplyReason(f, n) ==
    IF f.levels # {} /\ ~containsUpper(f.levels, n.Level) THEN "level"
    ELSE IF f.services # {} /\ ~containsLower(f.services, n.Service) THEN "service"
    ELSE ""

\* registry.go:42-50: the transform registered as filter_redact.
filter_redact(c, n) ==
    LET fs == NewFilterStage(c)
        res == Apply(fs, n)
    IN IF ~res.ok
       THEN [rec |-> res.rec, drop |-> TRUE, reason |-> ApplyReason(fs, n),
             err |-> FALSE]
       ELSE [rec |-> res.rec, drop |-> FALSE, reason |-> "", err |-> FALSE]

\* The chain that BuildTransforms builds when cfg.Transforms is empty
\* (registry.go:25-28).
DefaultTransforms == <<"filter_redact">>

\* The values a key of the decoded object is given.
ValuesOf(k) ==
    IF k = "kubernetes" THEN {Other, Absent}
    ELSE IF k \in ExtraKeys THEN {Str(<<"a">>), Other}
    ELSE IF k \in {"ts", "time"}
         THEN {Str(s) : s \in StringsOver(TimeAlphabet)} \cup {Other, Absent}
    ELSE {Str(s) : s \in StringsOver(TextAlphabet)} \cup {Other, Absent}

\* A decoded line that Normalize accepts.
BaseRecord ==
    [k \in RawKeys |->
        IF k = "ts" THEN Str(<<"T">>)
        ELSE IF k \in {"level", "msg"} THEN Str(<<"a">>)
        ELSE Absent]

\* The line r with the key k set to v; a member of the kubernetes object
\* makes "kubernetes" an object.
Edited(r, k, v) ==
    IF k \in K8sPaths THEN [r EXCEPT ![k] = v, !["kubernetes"] = Map]
    ELSE [r EXCEPT ![k] = v]

\* The ways of setting one of the keys to one of its values.
EditsOf(keys) == UNION {{[key |-> k, val |-> v] : v \in ValuesOf(k)} : k \in keys}

\* The line r after the edits e[i], e[i+1], ... in order.
RECURSIVE EditedFrom(_, _, _)
EditedFrom(r, e, i) ==
    IF i > Len(e) THEN r
    ELSE EditedFrom(Edited(r, e[i].key, e[i].val), e, i + 1)

\* The keys the default transform chain looks at.
FilterKeys == {"level", "service"} \cup ExtraKeys

\* The decoded lines explored are those MaxEdits edits make of BaseRecord
\* (an edit may set a key to the value it has).
RawEdits == [1..MaxEdits -> EditsOf(RawKeys)]
FilterEdits == [1..MaxEdits -> EditsOf(FilterKeys)]

\* config.Config: filter_levels, filter_services and redact_keys.
FilterConfigs ==
    [FilterLevels : SUBSET {<<>>, <<"a">>}, FilterSvcs : SUBSET {<<>>, <<"A">>},
     RedactKeys : SUBSET {"", "token"}]

\* config.Config{}: no allowlist, no redaction (filter_test.go:71-77).
NoRules == [FilterLevels |-> {}, FilterSvcs |-> {}, RedactKeys |-> {}]

EmptyRecord ==
    [TS |-> <<>>, Level |-> <<>>, Message |-> <<>>, Service |-> <<>>,
     Namespace |-> <<>>, Pod |-> <<>>, Node |-> <<>>, TraceID |-> <<>>,
     Fields |-> <<>>]

\* A decoded line before Normalize is called on it.
NewStage(raw, c) ==
    [pc |-> "decoded", raw |-> raw, filter |-> c,
     out |-> [rec |-> EmptyRecord, err |-> NoError],
     tf |-> [rec |-> EmptyRecord, drop |-> FALSE, reason |-> "", err |-> FALSE]]

\* main.go:376-384: Normalize is called on the decoded line; a line it
\* rejects is skipped.
StageNormalize ==
    /\ stage.pc = "decoded"
    /\ LET out == Normalize(stage.raw)
       IN stage' = [stage EXCEPT !.out = out,
                                 !.pc = IF out.err # NoError THEN "rejected"
                                        ELSE "normalized"]
    /\ UNCHANGED <<pipelineVars, rotVars, backoffVars>>

\* main.go:390-413: the default chain is applied to the record; a dropped
\* record is skipped, a survivor is sent to the queue.
StageTransform ==
    /\ stage.pc = "normalized"
    /\ LET tf == filter_redact(stage.filter, stage.out.rec)
       IN stage' = [stage EXCEPT !.tf = tf,
                                 !.pc = IF tf.drop THEN "dropped" ELSE "queued"]
    /\ UNCHANGED <<pipelineVars, rotVars, backoffVars>>

\* Every decoded line is normalized under a configuration without rules; the
\* lines that differ from BaseRecord in the keys the chain looks at are
\* normalized and filtered under every configuration.
StageInit ==
    /\ PipelineInit
    /\ PlainConfig(cfg) /\ cfg.QueueSize = 1
    /\ input = [nLines |-> 0, lines |-> "plain"]
    /\ rot = NoRotatingSink
    /\ backoff = NoBackoff
    /\ \/ \E e \in RawEdits : stage = NewStage(EditedFrom(BaseRecord, e, 1), NoRules)
       \/ \E e \in FilterEdits, c \in FilterConfigs :
              stage = NewStage(EditedFrom(BaseRecord, e, 1), c)

StageNext ==
    \/ StageNormalize
    \/ StageTransform

StageSpec == StageInit /\ [][StageNext]_vars

(***************************************************************************)
(* The waits of writeWithRetry (main.go:485-531).  A time.Duration is an  *)
(* int64 count of nanoseconds; it is kept here as its DurationBits bits in *)
(* two's complement, lowest bit first, so that the shift wraps as Go's     *)
(* does.  A fraction (jitter_pct, rand.Float64()) is kept as a count of    *)
(* hundredths resp. of RandSteps-ths.                                      *)
(***************************************************************************)
\* The lowest w bits of the natural number n (n is below 2^31).
Bits(n, w) == [i \in 1..w |-> IF i > 31 THEN 0 ELSE (n \div 2^(i - 1)) % 2]

\* b with zero bits added on top up to w bits.
Pad(b, w) == [i \in 1..w |-> IF i <= Len(b) THEN b[i] ELSE 0]

Zero(w) == [i \in 1..w |-> 0]

\* time.Duration(ms) * time.Millisecond
Milliseconds(ms) == Bits(ms * 1000000, DurationBits)

\* x << a on an int64: the bits shifted out at the top are lost, and a
\* shift by DurationBits or more leaves 0.
Shl(x, a) == [i \in 1..Len(x) |-> IF i > a THEN x[i - a] ELSE 0]

\* The sign bit.
IsNeg(x) == x[Len(x)] = 1

\* x > y for bit strings of one length w read as natural numbers: they
\* differ, and x has the 1 at the highest bit where they do.
GtFrom(x, y, w) ==
    \E i \in 1..w : /\ x[i] > y[i]
                    /\ \A j \in (i + 1)..w : x[j] = y[j]

\* x > y for natural numbers given by bit strings of any lengths.
GtNat(x, y) ==
    LET w == IF Len(x) > Len(y) THEN Len(x) ELSE Len(y)
    IN GtFrom(Pad(x, w), Pad(y, w), w)

\* x > y on int64.
Gt(x, y) ==
    IF IsNeg(x) # IsNeg(y) THEN IsNeg(y) ELSE GtFrom(x, y, Len(x))

\* x + 1 within the width of x: the bits up to the lowest 0 bit flip.
Inc(x) ==
    [i \in 1..Len(x) |-> IF \A j \in 1..(i - 1) : x[j] = 1 THEN 1 - x[i] ELSE x[i]]

\* |x| of an int64 as a natural number.
Magnitude(x) ==
    IF IsNeg(x) THEN Inc([i \in 1..Len(x) |-> 1 - x[i]]) ELSE x

\* Bit i of the natural number n.
Bit(n, i) == IF i <= Len(n) THEN n[i] ELSE 0

\* A natural number in base 256, lowest digit first.
Digit(n, j) ==
    LET i == 8 * (j - 1)
    IN Bit(n, i + 1) + 2 * Bit(n, i + 2) + 4 * Bit(n, i + 3) + 8 * Bit(n, i + 4)
       + 16 * Bit(n, i + 5) + 32 * Bit(n, i + 6) + 64 * Bit(n, i + 7)
       + 128 * Bit(n, i + 8)

Digits(n) == [j \in 1..((Len(n) + 7) \div 8) |-> Digit(n, j)]

FromDigits(ds) ==
    [i \in 1..(8 * Len(ds)) |-> (ds[((i - 1) \div 8) + 1] \div 2^((i - 1) % 8)) % 2]

\* ds * c for a small c, from digit j upwards with the carry and the digits
\* p of the product found so far.
RECURSIVE MulFrom(_, _, _, _, _)
MulFrom(ds, c, j, carry, p) ==
    IF j > Len(ds)
    THEN IF carry = 0 THEN p
         ELSE MulFrom(ds, c, j, carry \div 256, Append(p, carry % 256))
    ELSE LET t == ds[j] * c + carry
         IN MulFrom(ds, c, j + 1, t \div 256, Append(p, t % 256))

\* n * c for a natural number n and a small c.
MulSmall(n, c) == FromDigits(MulFrom(Digits(n), c, 1, 0, <<>>))

\* The quotient of ds by a small d, by long division from digit j downwards
\* with remainder r and the digits q of the quotient found so far.
RECURSIVE DivFrom(_, _, _, _, _)
DivFrom(ds, d, j, r, q) ==
    IF j = 0 THEN q
    ELSE LET t == 256 * r + ds[j]
         IN DivFrom(ds, d, j - 1, t % d, <<t \div d>> \o q)

\* The quotient of the natural number n by a small d.
DivSmall(n, d) ==
    LET ds == Digits(n) IN FromDigits(DivFrom(ds, d, Len(ds), 0, <<>>))

\* main.go:485-488
backoffBase(c) ==
    IF c.SinkBackoffBaseMS <= 0 THEN Milliseconds(100)
    ELSE Milliseconds(c.SinkBackoffBaseMS)

\* main.go:489-492
backoffMax(c) ==
    IF c.SinkBackoffMaxMS <= 0 THEN Milliseconds(2000)
    ELSE Milliseconds(c.SinkBackoffMaxMS)

\* main.go:493-496, in hundredths
jitterPct(c) == IF c.SinkBackoffJitter <= 0 THEN 20 ELSE c.SinkBackoffJitter

\* main.go:520-523: sleep := base << attempt; if sleep > max { sleep = max }
sleepFor(c, a) ==
    LET sleep == Shl(backoffBase(c), a)
    IN IF Gt(sleep, backoffMax(c)) THEN backoffMax(c) ELSE sleep

\* main.go:524: time.Duration(rand.Float64() * float64(sleep) * jitterPct),
\* for rand.Float64() = k / RandSteps; the conversion truncates toward zero.
jitterFor(c, sleep, k) ==
    LET mag == DivSmall(MulSmall(Magnitude(sleep), k * jitterPct(c)),
                        RandSteps * 100)
    IN [neg |-> IsNeg(sleep) /\ GtNat(mag, <<>>), mag |-> mag]

\* The settings Validate lets through (config.go:592-600, 620-627): none
\* negative, max >= base when both are set, jitter at most 1.0.
BackoffConfigs ==
    [SinkBackoffBaseMS : {0, 1, 100},
     SinkBackoffMaxMS : {0, 100, 2000},
     SinkBackoffJitter : {0, 20, 100}]

\* main.go:519-531: the attempt has failed and is not the last: retries++,
\* sleep and jitter are computed, the worker waits.
BackoffRetry ==
    /\ backoff.pc = "failed"
    /\ \E k \in 0..(RandSteps - 1) :
           LET sleep == sleepFor(backoff.cfg, backoff.attempt)
           IN backoff' = [backoff EXCEPT
                  !.pc = "sleeping",
                  !.retries = @ + 1,
                  !.last = backoff.sleep,
                  !.sleep = sleep,
                  !.jitter = jitterFor(backoff.cfg, sleep, k)]
    /\ UNCHANGED <<pipelineVars, rotVars, stageVars>>

\* main.go:527-531, 500, 508, 515: time.After(sleep + jitter) fires,
\* attempt++, and the next Write fails as well.
BackoffWake ==
    /\ backoff.pc = "sleeping"
    /\ backoff.attempt < MaxAttempt
    /\ backoff' = [backoff EXCEPT !.pc = "failed", !.attempt = @ + 1]
    /\ UNCHANGED <<pipelineVars, rotVars, stageVars>>

\* A writeWithRetry call whose first Write has failed, with more retries
\* allowed than are followed here.
BackoffInit ==
    /\ PipelineInit
    /\ PlainConfig(cfg) /\ cfg.QueueSize = 1
    /\ input = [nLines |-> 0, lines |-> "plain"]
    /\ rot = NoRotatingSink
    /\ stage = NoStage
    /\ \E c \in BackoffConfigs :
           backoff = [pc |-> "failed", cfg |-> c, attempt |-> 0, retries |-> 0,
                      last |-> Zero(DurationBits), sleep |-> Zero(DurationBits),
                      jitter |-> [neg |-> FALSE, mag |-> <<>>]]

BackoffNext ==
    \/ BackoffRetry
    \/ BackoffWake

BackoffSpec == BackoffInit /\ [][BackoffNext]_vars

(***************************************************************************)
Producer ==
    \/ ProducerLine
    \/ ProducerShutdown
    \/ ProducerEOF
    \/ ProducerScanError
    \/ ProducerSend

Wait ==
    \/ WaitDone
    \/ WaitTimeout
    \/ WaitCancelled

Defers ==
    \/ DeferDLQLock
    \/ DeferDLQClosed
    \/ DeferBatchStop
    \/ DeferBatchFlushEmpty
    \/ DeferBatchFlush
    \/ DeferBatchWriteOK
    \/ DeferBatchWriteErr
    \/ DeferBatchClosed
    \/ DeferSinkClose
    \/ DeferSinkClosed

Worker(w) ==
    \/ WorkerCtxDone(w)
    \/ WorkerRecv(w)
    \/ WorkerQueueClosed(w)
    \/ WorkerAttemptCancelled(w)
    \/ WorkerAttempt(w)
    \/ WorkerLockWrite(w)
    \/ WorkerWriteOK(w)
    \/ WorkerWriteErr(w)
    \/ HTTPPostOK(w)
    \/ HTTPPostRetry(w)
    \/ HTTPPostFailed(w)
    \/ HTTPNoAttempt(w)
    \/ WorkerBackoffDone(w)
    \/ WorkerBackoffCancelled(w)
    \/ WorkerLockAppend(w)
    \/ WorkerFlushEmpty(w)
    \/ WorkerFlush(w)
    \/ WorkerBatchWriteOK(w)
    \/ WorkerBatchWriteErr(w)
    \/ WorkerDLQLock(w)
    \/ \E ok \in BOOLEAN : WorkerDLQWritten(w, ok)

Flusher ==
    \/ FlusherTickEmpty
    \/ FlusherTick
    \/ FlusherWriteOK
    \/ FlusherWriteErr
    \/ FlusherExit

Next ==
    \/ Cancel
    \/ ProducerLine
    \/ ProducerShutdown
    \/ ProducerEOF
    \/ ProducerScanError
    \/ ProducerSend
    \/ WaitDone
    \/ WaitTimeout
    \/ WaitCancelled
    \/ DeferDLQLock
    \/ DeferDLQClosed
    \/ DeferBatchStop
    \/ DeferBatchFlushEmpty
    \/ DeferBatchFlush
    \/ DeferBatchWriteOK
    \/ DeferBatchWriteErr
    \/ DeferBatchClosed
    \/ DeferSinkClose
    \/ DeferSinkClosed
    \/ \E w \in Workers : WorkerCtxDone(w)
    \/ \E w \in Workers : WorkerRecv(w)
    \/ \E w \in Workers : WorkerQueueClosed(w)
    \/ \E w \in Workers : WorkerAttemptCancelled(w)
    \/ \E w \in Workers : WorkerAttempt(w)
    \/ \E w \in Workers : WorkerLockWrite(w)
    \/ \E w \in Workers : WorkerWriteOK(w)
    \/ \E w \in Workers : WorkerWriteErr(w)
    \/ \E w \in Workers : HTTPPostOK(w)
    \/ \E w \in Workers : HTTPPostRetry(w)
    \/ \E w \in Workers : HTTPPostFailed(w)
    \/ \E w \in Workers : HTTPNoAttempt(w)
    \/ \E w \in Workers : WorkerBackoffDone(w)
    \/ \E w \in Workers : WorkerBackoffCancelled(w)
    \/ \E w \in Workers : WorkerLockAppend(w)
    \/ \E w \in Workers : WorkerFlushEmpty(w)
    \/ \E w \in Workers : WorkerFlush(w)
    \/ \E w \in Workers : WorkerBatchWriteOK(w)
    \/ \E w \in Workers : WorkerBatchWriteErr(w)
    \/ \E w \in Workers : WorkerDLQLock(w)
    \/ \E w \in Workers, ok \in BOOLEAN : WorkerDLQWritten(w, ok)
    \/ FlusherTickEmpty
    \/ FlusherTick
    \/ FlusherWriteOK
    \/ FlusherWriteErr
    \/ FlusherExit

Spec == Init /\ [][Next]_vars

\* The scheduler runs every goroutine that can take a step, and every timer
\* fires; whether the token is ever cancelled is up to the environment.
FairSpec ==
    /\ Spec
    /\ WF_vars(Producer)
    /\ WF_vars(Wait)
    /\ WF_vars(Defers)
    /\ \A w \in 1..MaxWorkerCfg : WF_vars(w \in Workers /\ Worker(w))
    /\ WF_vars(Flusher)

(***************************************************************************)
(* Properties.                                                             *)
(***************************************************************************)
Returned == mpc = "returned"

\* C1: once the cancellation token has fired, runPipeline eventually returns,
\* also when the producer is blocked on a full queue and every worker has
\* already exited on the cancellation.
C1_CancelLeadsToReturn == cancelled ~> Returned

\* C2: a run in which the producer found the token cancelled with input
\* left never returns nil.
C2_CancelledRunReturnsError ==
    (Returned /\ shutdownRequested) => result # "nil"

\* Every enqueued record has been counted exactly once, and the two write
\* counters add up to the number of enqueued records.
AllEnqueuedCounted ==
    /\ rep.written_ok + rep.written_failed = Len(enqueued)
    /\ \A i \in 1..Len(enqueued) : counted[enqueued[i]] = 1

\* C3: the workers receive until the queue is closed and empty, so when all
\* of them have stopped every enqueued record has been received and has ended
\* in written_ok or written_failed.
C3_WorkersDrainQueue ==
    AllWorkersDone => (queue = <<>> /\ AllEnqueuedCounted)

\* C4: when runPipeline returns nil, every enqueued record has been counted
\* exactly once in written_ok or written_failed.
C4_NilMeansAllCounted ==
    (Returned /\ result = "nil") => AllEnqueuedCounted

\* C5: after each processed line normalized_ok + normalized_failed is at most
\* json_parsed: no line is counted as both.
C5_NormalizedBuckets ==
    rep.normalized_ok + rep.normalized_failed <= rep.json_parsed

\* The three parse counters.
ParseCounters(r) == <<r.total_lines, r.json_parsed, r.json_failed>>

\* A step in which the loop body has worked on a line.
LineProcessed == pos' = pos + 1 /\ ~shutdownRequested'

\* C6: after each processed line json_parsed + json_failed = total_lines, and
\* a blank line changes none of the three counters while every other line
\* adds one to total_lines.
C6_ParseCounters ==
    /\ [](rep.json_parsed + rep.json_failed = rep.total_lines)
    /\ [][LineProcessed =>
            IF line'.blank
            THEN ParseCounters(rep') = ParseCounters(rep)
            ELSE rep'.total_lines = rep.total_lines + 1]_vars

\* C6 witness: blank and undecodable lines were read among decoded ones.
C6_Witness ==
    /\ line.blank
    /\ pos = 3
    /\ rep.total_lines = 2
    /\ rep.json_failed = 1
    /\ rep.json_parsed = 1

\* C7: dlq_written never exceeds written_failed, and stays 0 without a DLQ.
C7_DLQBound ==
    IF dlqConfigured
    THEN rep.dlq_written <= rep.written_failed
    ELSE rep.dlq_written = 0

\* C7 witness: two workers have both failed a write, one has recorded its
\* DLQ envelope and the other is still writing its own.
C7_Witness ==
    /\ dlqConfigured
    /\ rep.written_failed = 2
    /\ rep.dlq_written = 1
    /\ \E w \in Workers : wpc[w] = "dlqwriting"

\* C8: at most one write is in progress on the underlying main sink.
C8_OneWriteAtATime == Cardinality(sinkBusy) <= 1

\* C9: no Close of the main sink runs while a worker is inside its Write.
C9_NoCloseDuringWrite ==
    sinkClosing # {} => sinkBusy \cap Workers = {}

\* The queue holds exactly the enqueued records no worker has received yet.
QueueIsSuffix ==
    /\ Len(queue) <= Len(enqueued)
    /\ queue = SubSeq(enqueued, Len(enqueued) - Len(queue) + 1, Len(enqueued))

\* C10: the queue never holds more than its capacity and loses no record; a
\* send on a full queue waits, and a surviving record stays with the producer
\* until it is appended to the queue.
C10_BackPressure ==
    /\ [](Len(queue) <= queueSize /\ QueueIsSuffix)
    /\ [][(mpc = "send" /\ Len(queue) = queueSize)
            => (mpc' = "send" /\ pending' = pending)]_vars
    /\ [][pending # 0
            => (pending' = pending \/ queue' = Append(queue, pending))]_vars

\* C10 witness: the producer holds a record and the queue is full.
C10_Witness ==
    /\ mpc = "send"
    /\ pending # 0
    /\ Len(queue) = queueSize

(***************************************************************************)
(* writeWithRetry as its caller sees it.                                   *)
(***************************************************************************)
\* Positions of a worker inside its call of writeWithRetry.
CallPcs == {"attempt", "lock", "writing", "backoff", "flush", "bwriting"}

\* This step is worker w returning from writeWithRetry.
Returns(w) == wpc[w] \in CallPcs /\ wpc'[w] \notin CallPcs

\* This step is worker w returning nil from writeWithRetry.
ReturnsNil(w) == Returns(w) /\ rep'.written_ok = rep.written_ok + 1

\* max(max_retries, 0)
ClampedRetries == IF cfg.SinkMaxRetries > 0 THEN cfg.SinkMaxRetries ELSE 0

\* The retry statistics of a report.
RetryStats(r) == <<r.total_retries, r.writes_with_retries, r.max_retries_per_write>>

\* C11: when the sink fails k times and then succeeds (k <= max_retries),
\* writeWithRetry returns nil with retries = k after k + 1 Write calls, and
\* the report gains k total_retries and, for k > 0, one writes_with_retries.
C11_RetryThenSuccess ==
    [][\A w \in Workers : ReturnsNil(w) =>
          LET k == tries'[w].fails
          IN /\ k <= ClampedRetries
             /\ retries'[w] = k
             /\ tries'[w].calls = k + 1
             /\ rep'.total_retries = rep.total_retries + k
             /\ rep'.writes_with_retries =
                    rep.writes_with_retries + (IF k > 0 THEN 1 ELSE 0)]_vars

\* A write has succeeded at its second attempt and the report shows it.
C11_Witness ==
    \E w \in Workers :
        /\ wpc[w] = "recv" /\ werr[w] = "" /\ item[w] # 0
        /\ tries[w] = [calls |-> 2, fails |-> 1]
        /\ retries[w] = 1
        /\ rep.written_ok = 1 /\ rep.total_retries = 1 /\ rep.writes_with_retries = 1

\* What every call of writeWithRetry keeps to: at most max(max_retries,0)+1
\* Write calls, at most max(max_retries,0) retries, and a write error only
\* after the last allowed attempt has failed.
RetryBounds(w) ==
    /\ tries'[w].calls <= ClampedRetries + 1
    /\ retries'[w] <= ClampedRetries
    /\ werr'[w] = ErrWrite =>
           (tries'[w].calls = ClampedRetries + 1 /\ tries'[w].fails = tries'[w].calls)

\* C12: every call of writeWithRetry makes at least one and at most
\* max(max_retries,0)+1 Write calls, returns retries <= max(max_retries,0),
\* and on exhaustion returns the error of the last attempt.
C12_AttemptBounds ==
    [][\A w \in Workers : Returns(w) => (tries'[w].calls >= 1 /\ RetryBounds(w))]_vars

\* C12 as amended: a call makes no Write call only when it returns the
\* cancellation error; the upper bounds hold for every call.
C12_AttemptBoundsUnlessCancelled ==
    [][\A w \in Workers : Returns(w) =>
          /\ RetryBounds(w)
          /\ tries'[w].calls = 0 => werr'[w] = ErrCanceled]_vars

\* A call with a negative max_retries has failed after exactly one attempt.
C12_Witness ==
    \E w \in Workers :
        /\ cfg.SinkMaxRetries < 0 /\ ~httpSink
        /\ wpc[w] = "recv" /\ werr[w] = ErrWrite
        /\ tries[w] = [calls |-> 1, fails |-> 1] /\ retries[w] = 0

\* C13: writeWithRetry looks at the token before every attempt and during
\* every backoff: with the token cancelled it goes on to no Write call, a
\* cancelled call returns the cancellation error with the retries made so
\* far and records no retry statistics, and a call entered with the token
\* already cancelled calls no Write and leaves the report to its caller.
C13_HonorsCancellation ==
    [][\A w \in Workers :
          /\ (cancelled /\ wpc[w] = "attempt") => wpc'[w] # "lock"
          /\ (Returns(w) /\ wpc[w] \in {"attempt", "backoff"}) =>
                 /\ cancelled
                 /\ werr'[w] = ErrCanceled
                 /\ retries'[w] = tries[w].fails
                 /\ tries'[w] = tries[w]
                 /\ RetryStats(rep') = RetryStats(rep)
          /\ (Returns(w) /\ wpc[w] = "attempt" /\ tries[w].calls = 0) =>
                 /\ sinkLog' = sinkLog /\ postLog' = postLog /\ buffer' = buffer
                 /\ rep' = [rep EXCEPT !.written_failed = @ + 1]]_vars

\* A call entered with the token cancelled has returned the cancellation
\* error without a Write call; another has been cancelled in its backoff.
C13_Witness ==
    \E w \in Workers :
        /\ cancelled /\ wpc[w] \in {"recv", "dlq"} /\ werr[w] = ErrCanceled
        /\ tries[w].calls = 0 /\ item[w] # 0 /\ sinkLog[item[w]] = 0

\* A call has been cancelled during its backoff, after one failed attempt.
C13_WitnessBackoff ==
    \E w \in Workers :
        /\ cancelled /\ werr[w] = ErrCanceled
        /\ tries[w] = [calls |-> 1, fails |-> 1] /\ retries[w] = 1

(***************************************************************************)
(* The HTTP sink.                                                          *)
(***************************************************************************)
\* C14: with the HTTP sink as main sink, when the endpoint fails k times
\* (1 <= k <= max_retries) for the one record of a run and then answers 2xx,
\* k + 1 POSTs are made, the write succeeds, and the report shows
\* total_retries = k, writes_with_retries = 1, max_retries_per_write = k.
C14_HTTPRetryStats ==
    (/\ httpSink
     /\ Len(enqueued) = 1
     /\ rep.written_ok = 1
     /\ postFail[enqueued[1]] >= 1
     /\ postFail[enqueued[1]] <= cfg.SinkMaxRetries)
    => LET k == postFail[enqueued[1]]
       IN /\ postLog[enqueued[1]] = k + 1
          /\ sinkLog[enqueued[1]] = 1
          /\ rep.total_retries = k
          /\ rep.writes_with_retries = 1
          /\ rep.max_retries_per_write = k

\* This step is worker w returning from HTTPSink.Write.
HTTPWriteReturns(w) == httpSink /\ wpc[w] = "writing" /\ wpc'[w] # "writing"

\* C15: HTTPSink.Write returns nil exactly when one of its POSTs was answered
\* with a 2xx status, and returns an error only after max_retries + 1 POSTs,
\* for every max_retries the sink is constructed with.
C15_HTTPSuccessIff2xx ==
    [][\A w \in Workers : HTTPWriteReturns(w) =>
          LET nil == tries'[w].fails = tries[w].fails
              r == item[w]
          IN /\ nil <=> sinkLog'[r] = sinkLog[r] + 1
             /\ ~nil => postLog'[r] = tries'[w].calls * (cfg.SinkMaxRetries + 1)]_vars

(***************************************************************************)
(* The rotating sink.                                                      *)
(***************************************************************************)
\* C16: for every max_files >= 0 the files of a rotating sink on disk number
\* at most max(max_files, 1) + 1 at every moment.
C16_RotatingFileBound ==
    rot.open =>
        Cardinality(rot.files) <= (IF rot.maxFiles > 1 THEN rot.maxFiles ELSE 1) + 1

\* C16 as amended: for max_files >= 1 the files of a rotating sink on disk
\* number at most max_files + 1 at every moment, and they are the base file
\* and the newest rotated files.
C16_RotatingFileBoundPositive ==
    (rot.open /\ rot.maxFiles >= 1) =>
        /\ Cardinality(rot.files) <= rot.maxFiles + 1
        /\ \A k \in rot.files : k = 0 \/ (k > rot.index - rot.maxFiles /\ k <= rot.index)

\* A sink with max_files = 1 has rotated past its retention window and holds
\* the base file and the newest rotated file.
C16_Witness ==
    rot.open /\ rot.maxFiles = 1 /\ rot.index = 3 /\ rot.files = {0, 3}

\* C17: with max_files = N > 0 at most N files of the sink exist on disk
\* after any sequence of writes.
C17_AtMostMaxFiles ==
    (rot.open /\ rot.maxFiles > 0) => Cardinality(rot.files) <= rot.maxFiles

(***************************************************************************)
(* The batching wrapper.                                                   *)
(***************************************************************************)
\* C18: a worker's Write reaches the wrapped sink only once the buffer holds
\* batch_size records, and the Write that filled the buffer returns nil only
\* after its batch, the record it added included, has been written to the
\* wrapped sink.
C18_SynchronousBatchFlush ==
    [][\A w \in Workers : batching =>
          /\ (w \notin sinkBusy /\ w \in sinkBusy') => Len(buffer) >= cfg.BatchSize
          /\ (wpc[w] \in {"flush", "bwriting"} /\ ReturnsNil(w)) =>
                 sinkLog'[item[w]] >= 1]_vars

\* BatchedSink.Close has just returned nil (it closed the wrapped sink), on
\* an exit path where every worker had finished before the deferred closes
\* started and no write was reported as failed: every counted record was
\* accepted by Write before Close.
BatchClosedCleanly ==
    /\ batching
    /\ mpc = "defer_sink"
    /\ sinkCloses >= 1
    /\ result \in {"nil", "write report"}
    /\ rep.written_failed = 0

\* C19: when BatchedSink.Close returns nil the flusher has stopped, every
\* record accepted by Write before Close has been written to the wrapped sink
\* exactly once, and no write to the wrapped sink is still going on.
C19_CloseFlushesAll ==
    BatchClosedCleanly =>
        /\ fpc = "exited"
        /\ buffer = <<>>
        /\ sinkBusy = {}
        /\ \A r \in 1..MaxLines : counted[r] = 1 => sinkLog[r] = 1

(***************************************************************************)
(* The DLQ branch.                                                         *)
(***************************************************************************)
\* Sum of the dlq_reasons tallies of a report.
ReasonTotal(r) ==
    r.dlq_reasons[ErrWrite] + r.dlq_reasons[ErrCanceled] + r.dlq_reasons["unknown"]

\* C20: with a DLQ configured a terminal write failure counts written_failed
\* once and leads to one DLQ write of the record with the error's text as
\* reason and one more in the tally of that reason; the DLQ write, failed or
\* not, is made once, the worker goes on receiving, and runPipeline's result
\* is untouched.
C20_DLQOnFailure ==
    /\ [](/\ \A r \in 1..MaxLines :
               /\ Len(dlqLog[r]) <= counted[r]
               /\ \A i \in 1..Len(dlqLog[r]) : dlqLog[r][i] \in {ErrWrite, ErrCanceled}
          /\ ReasonTotal(rep) = rep.dlq_written
          /\ rep.dlq_reasons["unknown"] = 0)
    /\ [][\A w \in Workers : dlqConfigured =>
             /\ (Returns(w) /\ ~ReturnsNil(w)) =>
                    /\ wpc'[w] = "dlq"
                    /\ werr'[w] \in {ErrWrite, ErrCanceled}
                    /\ rep'.written_failed = rep.written_failed + 1
                    /\ rep'.dlq_written = rep.dlq_written
             /\ (wpc[w] = "dlq" /\ wpc'[w] # "dlq") => wpc'[w] = "dlqwriting"
             /\ (wpc[w] = "dlqwriting" /\ wpc'[w] # "dlqwriting") =>
                    /\ wpc'[w] = "recv"
                    /\ result' = result
                    /\ mpc' = mpc
                    /\ dlqLog'[item[w]] \in {dlqLog[item[w]], Append(dlqLog[item[w]], werr[w])}
                    /\ \A r \in 1..MaxLines : r # item[w] => dlqLog'[r] = dlqLog[r]
                    /\ rep'.dlq_written = rep.dlq_written + 1
                    /\ rep'.dlq_reasons[werr[w]] = rep.dlq_reasons[werr[w]] + 1
                    /\ rep'.written_failed = rep.written_failed]_vars

\* A DLQ write has failed: the failure is tallied, nothing is in the DLQ, and
\* the worker has gone on to write the next record.
C20_Witness ==
    /\ dlqConfigured
    /\ rep.written_failed = 1 /\ rep.dlq_written = 1 /\ rep.dlq_reasons[ErrWrite] = 1
    /\ \A r \in 1..MaxLines : dlqLog[r] = <<>>
    /\ rep.written_ok = 1

(***************************************************************************)
(* Properties of filter_redact and Normalize, checked under StageSpec.     *)
(***************************************************************************)
\* The default chain has been applied to the record.
Transformed == stage.pc \in {"dropped", "queued"}

\* Two strings that differ at most in the case of their letters.
SameFold(a, b) == ToUpper(a) = ToUpper(b)

\* An allowlist allows a value: it is empty or lists the value.
Listed(list, v) == list = {} \/ \E x \in list : SameFold(x, v)

\* An allowlist of which only the entries that are not empty count.
ListedNonEmpty(list, v) == Listed({x \in list : x # <<>>}, v)

\* C21: filter_redact drops a record that the level allowlist does not allow
\* with reason "level", also when the service allowlist does not allow it
\* either; it drops a record that only the service allowlist does not allow
\* with reason "service"; it keeps every other record. An allowlist compares
\* without regard to case and allows everything when it is empty.
C21_LevelBeforeService ==
    Transformed =>
        LET n == stage.out.rec
            byLevel == Listed(stage.filter.FilterLevels, n.Level)
            byService == Listed(stage.filter.FilterSvcs, n.Service)
        IN /\ ~byLevel => (stage.tf.drop /\ stage.tf.reason = "level")
           /\ (byLevel /\ ~byService) => (stage.tf.drop /\ stage.tf.reason = "service")
           /\ (byLevel /\ byService) => ~stage.tf.drop

\* C21, amended: as C21, with the empty entries of an allowlist ignored, so
\* that an allowlist without an entry that is not empty allows everything.
C21_LevelBeforeServiceNonEmpty ==
    Transformed =>
        LET n == stage.out.rec
            byLevel == ListedNonEmpty(stage.filter.FilterLevels, n.Level)
            byService == ListedNonEmpty(stage.filter.FilterSvcs, n.Service)
        IN /\ ~byLevel => (stage.tf.drop /\ stage.tf.reason = "level")
           /\ (byLevel /\ ~byService) => (stage.tf.drop /\ stage.tf.reason = "service")
           /\ (byLevel /\ byService) => ~stage.tf.drop

\* C21 witness: a record that neither allowlist allows is dropped by level.
C21_Witness ==
    /\ stage.pc = "dropped"
    /\ stage.tf.reason = "level"
    /\ ~ListedNonEmpty(stage.filter.FilterLevels, stage.out.rec.Level)
    /\ ~ListedNonEmpty(stage.filter.FilterSvcs, stage.out.rec.Service)

\* C22: a record that passes the allowlists holds none of the configured
\* redaction keys in its fields afterwards and every other field with its
\* value; so no record sent on by the default chain holds a redaction key.
C22_RedactionKeysAbsent ==
    stage.pc = "queued" =>
        LET before == stage.out.rec.Fields
            after == stage.tf.rec.Fields
            keys == stage.filter.RedactKeys
        IN /\ \A k \in keys : k \notin DOMAIN after
           /\ \A k \in DOMAIN before \ keys :
                  k \in DOMAIN after /\ after[k] = before[k]

\* C22, amended: as C22 for the configured redaction keys that are not the
\* empty string; a field whose key is the empty string keeps its value.
C22_NonEmptyRedactionKeysAbsent ==
    stage.pc = "queued" =>
        LET before == stage.out.rec.Fields
            after == stage.tf.rec.Fields
            keys == stage.filter.RedactKeys \ {""}
        IN /\ \A k \in keys : k \notin DOMAIN after
           /\ \A k \in DOMAIN before \ keys :
                  k \in DOMAIN after /\ after[k] = before[k]

\* C22 witness: a record with a redaction key and another field has passed.
C22_Witness ==
    /\ stage.pc = "queued"
    /\ "token" \in stage.filter.RedactKeys
    /\ {"token", "keep"} \subseteq DOMAIN stage.out.rec.Fields
    /\ DOMAIN stage.tf.rec.Fields = {"keep"}

\* C23: a record that filter_redact drops keeps its fields as they were.
C23_DroppedKeepsFields ==
    stage.pc = "dropped" => stage.tf.rec.Fields = stage.out.rec.Fields

\* C23 witness: a dropped record still holds a configured redaction key.
C23_Witness ==
    /\ stage.pc = "dropped"
    /\ "token" \in stage.filter.RedactKeys
    /\ "token" \in DOMAIN stage.tf.rec.Fields

(***************************************************************************)
(* Properties of the transform chain in the producer loop.                 *)
(***************************************************************************)
\* The first transform from i on that drops the record or fails, 0 if none.
RECURSIVE FirstStop(_, _)
FirstStop(tf, i) ==
    IF i > MaxTransforms THEN 0
    ELSE IF tf[i].drop \/ tf[i].err THEN i
    ELSE FirstStop(tf, i + 1)

\* The transform that drops the line's record, 0 if the line has no record,
\* no transform stops the chain or the first to stop it fails.
DroppedAt(ln) ==
    IF ln.blank \/ ~ln.json \/ ~ln.norm THEN 0
    ELSE LET i == FirstStop(ln.tf, 1)
         IN IF i > 0 /\ ~ln.tf[i].err THEN i ELSE 0

\* The filtered sub-counters, and those counters with one drop for a reason added.
Filtered(r) == <<r.filtered_level, r.filtered_service, r.filtered_other>>

FilteredPlus(r, reason) ==
    <<r.filtered_level + (IF reason = "level" THEN 1 ELSE 0),
      r.filtered_service + (IF reason = "service" THEN 1 ELSE 0),
      r.filtered_other + (IF reason \notin {"level", "service"} THEN 1 ELSE 0)>>

\* C24: when the i-th configured transform is the first to drop a record, the
\* loop body has called the transforms 1..i and no later one, has added one
\* to the filtered sub-counter of the reason (other for an empty or unknown
\* reason) and to nothing else a transform may count, and the record is not
\* sent to the queue, then or later.
C24_DropShortCircuits ==
    [][/\ (LineProcessed /\ DroppedAt(line') > 0) =>
              LET i == DroppedAt(line')
              IN /\ applied' = i
                 /\ Filtered(rep') = FilteredPlus(rep, line'.tf[i].reason)
                 /\ rep'.normalized_failed = rep.normalized_failed
                 /\ pending' = 0 /\ mpc' = "scan" /\ enqueued' = enqueued
       /\ DroppedAt(line) > 0 =>
              /\ pending' # pos
              /\ \A j \in 1..Len(enqueued') : enqueued'[j] # pos]_vars

\* C24 witness: the first transform dropped a record by level which the second
\* would have dropped by service.
C24_Witness ==
    /\ DroppedAt(line) = 1
    /\ line.tf[1].reason = "level"
    /\ line.tf[2].drop /\ line.tf[2].reason = "service"
    /\ applied = 1
    /\ rep.filtered_level = 1 /\ rep.filtered_service = 0

(***************************************************************************)
(* Properties of Normalize, checked under StageSpec.                       *)
(***************************************************************************)
\* Normalize has returned for the line.
NormalizeReturned == stage.pc \in {"rejected", "normalized", "dropped", "queued"}

\* Normalize has returned without error.
NormalizeAccepted == stage.pc \in {"normalized", "dropped", "queued"}

\* A key supplies a value: it holds a string that is not blank.
Supplies(raw, k) == raw[k].kind = "string" /\ TrimSpace(raw[k].s) # <<>>

\* The text of the timestamp: that of ts, of time when ts supplies none.
TimestampText(raw) ==
    IF Supplies(raw, "ts") THEN TrimSpace(raw["ts"].s) ELSE TrimSpace(raw["time"].s)

\* The first of the validation errors, in the order timestamp present,
\* timestamp parses, message present, level present, that applies to the line.
FirstViolation(raw) ==
    IF ~(Supplies(raw, "ts") \/ Supplies(raw, "time")) THEN ErrMissingTimestamp
    ELSE IF parseTimestamp(TimestampText(raw)).err # NoError
         THEN ErrInvalidTimestamp(TimestampText(raw))
    ELSE IF ~(Supplies(raw, "msg") \/ Supplies(raw, "message")) THEN ErrMissingMessage
    ELSE IF ~(Supplies(raw, "level") \/ Supplies(raw, "severity")) THEN ErrMissingLevel
    ELSE NoError

PrimaryNode(raw) ==
    raw["kubernetes"].kind = "map" /\ Supplies(raw, "kubernetes.node_name")

\* C26: the node column is kubernetes.node_name whenever that is a string;
\* without it, it is the top-level node, and without that the hostname; the
\* key hostname is never among the fields.
C26_NodePriority ==
    NormalizeReturned =>
        LET raw == stage.raw
            node == stage.out.rec.Node
        IN /\ PrimaryNode(raw) =>
                  TrimSpace(node) = TrimSpace(raw["kubernetes.node_name"].s)
           /\ (~PrimaryNode(raw) /\ Supplies(raw, "node")) =>
                  node = TrimSpace(raw["node"].s)
           /\ (~PrimaryNode(raw) /\ ~Supplies(raw, "node") /\ Supplies(raw, "hostname"))
                  => node = TrimSpace(raw["hostname"].s)
           /\ "hostname" \notin DOMAIN stage.out.rec.Fields

\* The columns of a record that hold strings.
StringColumns ==
    {"TS", "Level", "Service", "Namespace", "Pod", "Node", "Message", "TraceID"}

\* C27: in a record that Normalize returns without error no string column
\* begins or ends with white space.
C27_ColumnsTrimmed ==
    NormalizeAccepted =>
        \A c \in StringColumns : TrimSpace(stage.out.rec[c]) = stage.out.rec[c]

(***************************************************************************)
(* Properties of the producer's exit, of the report's mutex and of the     *)
(* queue's capacity.                                                       *)
(***************************************************************************)
\* The producer loop has been left.
LoopExited == mpc \notin {"scan", "send"}

\* C28: once the producer loop has been left, by the end of the input, by
\* cancellation or by a scanner error, the queue is closed.
C28_QueueClosedAfterLoop == LoopExited => qclosed

\* C29: no counter of the report is written without holding Report.mu.
C29_CountersUnderMutex == unsynced = {}

\* The larger of two numbers.
Max(a, b) == IF a > b THEN a ELSE b

\* C30: the queue takes a record from the producer exactly while it holds
\* fewer than max(queue_size, 128) records.
C30_CapacityAtLeastDefault ==
    mpc = "send" => (ENABLED ProducerSend <=> Len(queue) < Max(cfg.QueueSize, 128))

\* C30, amended: the queue takes a record from the producer exactly while it
\* holds fewer than queue_size records, fewer than 128 when queue_size is 0
\* or less; it never holds more.
C30_CapacityAsConfigured ==
    LET Q == IF cfg.QueueSize > 0 THEN cfg.QueueSize ELSE 128
    IN /\ Len(queue) <= Q
       /\ mpc = "send" => (ENABLED ProducerSend <=> Len(queue) < Q)

\* C30 witness: with queue_size 0 the queue holds two records and takes a third.
C30_Witness ==
    /\ cfg.QueueSize = 0
    /\ mpc = "send"
    /\ Len(queue) = 2
    /\ ENABLED ProducerSend

(***************************************************************************)
(* The DLQ counters and the envelopes in the DLQ sink.                     *)
(***************************************************************************)
\* Number of envelopes the DLQ sink holds for the records 1..n.
RECURSIVE EnvelopesUpTo(_)
EnvelopesUpTo(n) ==
    IF n = 0 THEN 0 ELSE Len(dlqLog[n]) + EnvelopesUpTo(n - 1)

\* C37: dlq_written and the dlq_reasons tallies count only envelopes that
\* were written to the DLQ sink: a DLQ write that returns an error adds to
\* neither.
C37_DLQWrittenCountsEnvelopes ==
    /\ rep.dlq_written <= EnvelopesUpTo(MaxLines)
    /\ ReasonTotal(rep) <= EnvelopesUpTo(MaxLines)

(***************************************************************************)
(* The HTTP sink under writeWithRetry.                                     *)
(***************************************************************************)
\* C36: with the HTTP sink as main sink, no record is POSTed more than
\* sink_max_retries + 1 times, the attempts of HTTPSink.Write's loop and of
\* writeWithRetry's loop counted together.
C36_PostAttemptsBound ==
    httpSink => \A r \in 1..MaxLines : postLog[r] <= ClampedRetries + 1

(***************************************************************************)
(* The deferred closes and the workers.                                    *)
(***************************************************************************)
\* C34: Close is never called twice on the underlying main sink or on the
\* DLQ sink, and when runPipeline has returned each of them has been closed
\* once (the DLQ sink when one is configured), with and without batching.
C34_ClosedExactlyOnce ==
    /\ sinkCloses <= 1
    /\ dlqCloses <= 1
    /\ Returned => /\ sinkCloses = 1
                   /\ dlqConfigured => dlqCloses = 1

\* C35: once runPipeline has closed the main sink no worker enters its
\* Write, and once it has closed the DLQ sink no worker enters the DLQ
\* sink's Write, whichever way runPipeline came to its deferred closes.
C35_NoWriteAfterClose ==
    [][\A w \in Workers :
          /\ sinkCloses >= 1 => ~(w \notin sinkBusy /\ w \in sinkBusy')
          /\ dlqCloses >= 1 => ~(w \notin dlqBusy /\ w \in dlqBusy')]_vars

(***************************************************************************)
(* A write cut short by cancellation.                                      *)
(***************************************************************************)
\* This step is worker w's writeWithRetry returning the cancellation error.
ReturnsCanceled(w) == Returns(w) /\ werr'[w] = ErrCanceled

\* C38: a write that returns the cancellation error is a terminal failure
\* like any other: written_failed grows by one, and with a DLQ configured
\* the worker goes on to one DLQ write of the record with the cancellation
\* error's text as reason (the envelope is in the DLQ sink when that write
\* succeeds) and adds one to dlq_written and to the tally of that reason.
C38_CancelledWriteIsFailure ==
    [][\A w \in Workers :
          /\ ReturnsCanceled(w) =>
                /\ rep'.written_failed = rep.written_failed + 1
                /\ rep'.written_ok = rep.written_ok
                /\ counted'[item[w]] = counted[item[w]] + 1
                /\ wpc'[w] = IF dlqConfigured THEN "dlq" ELSE "recv"
          /\ (wpc[w] = "dlq" /\ werr[w] = ErrCanceled /\ wpc'[w] # "dlq") =>
                wpc'[w] = "dlqwriting" /\ w \in dlqBusy'
          /\ (wpc[w] = "dlqwriting" /\ werr[w] = ErrCanceled
                /\ wpc'[w] # "dlqwriting") =>
                /\ dlqLog'[item[w]] \in
                       {dlqLog[item[w]], Append(dlqLog[item[w]], ErrCanceled)}
                /\ rep'.dlq_written = rep.dlq_written + 1
                /\ rep'.dlq_reasons[ErrCanceled] = rep.dlq_reasons[ErrCanceled] + 1
                /\ rep'.dlq_reasons[ErrWrite] = rep.dlq_reasons[ErrWrite]]_vars

\* A cancelled write has been counted as failed and its envelope, with the
\* cancellation error's text as reason, is in the DLQ sink and in the tally.
C38_Witness ==
    \E w \in Workers :
        /\ cancelled /\ dlqConfigured /\ item[w] # 0
        /\ wpc[w] \in {"recv", "done"} /\ werr[w] = ErrCanceled
        /\ dlqLog[item[w]] = <<ErrCanceled>>
        /\ rep.written_failed = 1 /\ rep.written_ok = 0
        /\ rep.dlq_written = 1 /\ rep.dlq_reasons[ErrCanceled] = 1

(***************************************************************************)
(* Termination without cancellation.                                       *)
(***************************************************************************)
\* runPipeline has returned nil with the queue empty, every worker
\* terminated and every enqueued record counted.
CleanFinish ==
    /\ Returned /\ result = "nil"
    /\ queue = <<>>
    /\ AllWorkersDone
    /\ AllEnqueuedCounted

\* The results runPipeline returns when the token was never cancelled.
UncancelledResults == {"nil", "scanner error", "shutdown timeout", "write report"}

WrittenRecords == {r \in 1..MaxLines : sinkLog[r] >= 1}

\* C32: with batching, when runPipeline has returned nil the records counted
\* in written_ok have all been written to the underlying sink: they are no
\* more than the records that sink has written, and in a run without a
\* failed write every counted record is one of them.
C32_WrittenOKMeansWritten ==
    (batching /\ Returned /\ result = "nil") =>
        /\ rep.written_ok <= Cardinality(WrittenRecords)
        /\ rep.written_failed = 0 =>
               \A r \in 1..MaxLines : counted[r] >= 1 => r \in WrittenRecords

\* The threads that run BatchedSink.flush.
Flushers == Workers \cup {FlusherT, MainT}

\* This step is a failed write of the wrapped sink inside thread t's flush.
FlushFails(t) ==
    /\ fbatch[t] # <<>>
    /\ fbatch'[t] = <<>>
    /\ sinkLog' = sinkLog

\* Record r is in sequence s.
InSeq(s, r) == \E i \in 1..Len(s) : s[i] = r

\* C33: a failed write in the middle of a flush loses no accepted record:
\* each record of the batch not yet written is still buffered afterwards, or
\* is the record of the Write call the failure is returned to; and the
\* wrapped sink writes no record twice.
C33_FailedFlushLosesNothing ==
    /\ [](\A r \in 1..MaxLines : sinkLog[r] <= 1)
    /\ [][\A t \in Flushers : FlushFails(t) =>
             \A i \in 1..Len(fbatch[t]) :
                 \/ InSeq(buffer', fbatch[t][i])
                 \/ t \in Workers /\ fbatch[t][i] = item[t]]_vars

(***************************************************************************)
(* Order of the records in the underlying sink.                            *)
(***************************************************************************)
\* C39: with one worker, whenever the underlying sink writes a record no
\* record of a later input line has been written by it before, with and
\* without the batching wrapper (a record's number is its line's position).
C39_SingleWorkerInOrder ==
    [][workerCount = 1 =>
          \A r \in 1..MaxLines : sinkLog'[r] > sinkLog[r] =>
              \A later \in (r + 1)..MaxLines : sinkLog[later] = 0]_vars

(***************************************************************************)
(* The waits of writeWithRetry, checked under BackoffSpec.                 *)
(***************************************************************************)
\* min(base * 2^a, max) as a natural number, computed without a width.
IntendedWait(c, a) ==
    LET exact == Shl(Pad(backoffBase(c), DurationBits + a), a)
    IN IF GtNat(exact, backoffMax(c)) THEN backoffMax(c) ELSE exact

\* x = y for natural numbers given by bit strings of any lengths.
EqNat(x, y) == ~GtNat(x, y) /\ ~GtNat(y, x)

\* C31: for every retry index a the wait before jitter is min(base * 2^a,
\* max): it is positive, at least base and not below the wait of the retry
\* before, also when base << a leaves the range of an int64; and the jitter
\* is at least 0 and below wait * jitter_pct.
C31_BackoffWait ==
    backoff.pc = "sleeping" =>
        LET c == backoff.cfg
            sleep == backoff.sleep
        IN /\ ~IsNeg(sleep)
           /\ EqNat(sleep, IntendedWait(c, backoff.attempt))
           /\ GtNat(sleep, <<>>)
           /\ ~GtNat(backoffBase(c), sleep)
           /\ ~GtNat(backoff.last, sleep) /\ ~IsNeg(backoff.last)
           /\ ~backoff.jitter.neg
           /\ GtNat(MulSmall(sleep, jitterPct(c)),
                    MulSmall(backoff.jitter.mag, 100))

=============================================================================
